---------------------------- MODULE Spec2Model ----------------------------
(***************************************************************************)
(* Three-player No-Limit Hold'em engine (poker_collusion.env), its action  *)
(* abstraction (poker_collusion.abstraction.actions) and the MCCFR         *)
(* traversal that drives it (poker_collusion.cfr.trainer).                 *)
(*                                                                         *)
(* Chip amounts are Python floats in big blinds.  Here they are integers   *)
(* in units of 1/Unit BB.  With Unit = 100000 every amount the engine      *)
(* computes is exact as long as at most two pot-fraction bets have been    *)
(* made in the hand; from the third on the product pot * mult is           *)
(* truncated to the unit.  The arithmetic is exact: the last-bit rounding  *)
(* of float sums (a call total bets[p] + to_call that differs from         *)
(* max(bets) in the last bit) is not part of the model.                    *)
(*                                                                         *)
(* Python lists are functions over 0..n-1 (seats) or sequences (board,     *)
(* action_history, undo_stack).  A list indexed with -1 reads its last     *)
(* element, which is what the engine does when current_player = -1.        *)
(***************************************************************************)
EXTENDS Integers, Sequences, FiniteSets, TLC

VARIABLES
    state,      \* the NLHEState object of the hand in progress
    calls,      \* the activations of CFRTrainer.cfr_traverse, outermost first
    trainer,    \* the CFRTrainer object: regret_sum, strategy_sum, iteration
    bucketing,  \* the module globals of abstraction/bucketing.py: the tables
    lookup,     \* what get_info_key last returned to a caller that asked
    training,   \* the locals start and end of the call of CFRTrainer.train in progress
    disk,       \* the checkpoint file CFRTrainer.save wrote last
    probe,      \* a caller's call of a pure function: its arguments and result
    builder     \* the frame of the generator enumerate_canonical_hands

vars == <<state, calls, trainer, bucketing, lookup, training, disk, probe, builder>>

(***************************************************************************)
(* config.py and the tables of actions.py                                  *)
(***************************************************************************)
Unit == 100000
NUM_PLAYERS == 3
NUM_ACTIONS == 10
STARTING_STACK_BB == 20 * Unit
SMALL_BLIND_BB == Unit \div 2
BIG_BLIND_BB == Unit
DEAL == 100

Players == 0 .. (NUM_PLAYERS - 1)

\* PREFLOP_RAISE_BB[i], i = action_index - 2, as a street total
PREFLOP_RAISE_BB ==
    [i \in 0..6 |-> CASE i = 0 -> 2 * Unit
                      [] i = 1 -> (5 * Unit) \div 2
                      [] i = 2 -> 3 * Unit
                      [] i = 3 -> 4 * Unit
                      [] i = 4 -> 5 * Unit
                      [] i = 5 -> 8 * Unit
                      [] i = 6 -> 12 * Unit]

\* POSTFLOP_POT_MULT[i] in hundredths
POSTFLOP_POT_MULT ==
    [i \in 0..6 |-> CASE i = 0 -> 25
                      [] i = 1 -> 33
                      [] i = 2 -> 50
                      [] i = 3 -> 66
                      [] i = 4 -> 75
                      [] i = 5 -> 100
                      [] i = 6 -> 150]

\* pot * mult
PotTimes(pot, i) == (pot * POSTFLOP_POT_MULT[i]) \div 100

(***************************************************************************)
(* Python list helpers                                                     *)
(***************************************************************************)
\* lst[p] for a seat-indexed list, with Python's negative indexing
PyIdx(p) == IF p < 0 THEN p + NUM_PLAYERS ELSE p

MaxOf(S) == CHOOSE x \in S : \A y \in S : y <= x

\* max(state.bets)
MaxSeat(f) == MaxOf({f[q] : q \in Players})

RECURSIVE SumSeq(_)
SumSeq(s) == IF s = <<>> THEN 0 ELSE Head(s) + SumSeq(Tail(s))

SumSeats(f) == f[0] + f[1] + f[2]

RECURSIVE InsertDesc(_, _)
InsertDesc(s, x) ==
    IF s = <<>> THEN <<x>>
    ELSE IF x >= Head(s) THEN <<x>> \o s
    ELSE <<Head(s)>> \o InsertDesc(Tail(s), x)

\* sorted(xs, reverse=True)
RECURSIVE SortedDesc(_)
SortedDesc(s) == IF s = <<>> THEN <<>> ELSE InsertDesc(SortedDesc(Tail(s)), Head(s))

RECURSIVE SetToDesc(_)
SetToDesc(S) ==
    IF S = {} THEN <<>>
    ELSE LET m == MaxOf(S) IN <<m>> \o SetToDesc(S \ {m})

\* a global or a local is None or holds an object
None == <<>>

Loaded(x) == <<x>>

\* Python's tuple comparison a > b
RECURSIVE TupleGreater(_, _)
TupleGreater(a, b) ==
    IF a = <<>> THEN FALSE
    ELSE IF b = <<>> THEN TRUE
    ELSE IF Head(a) # Head(b) THEN Head(a) > Head(b)
    ELSE TupleGreater(Tail(a), Tail(b))

(***************************************************************************)
(* hand_eval.py                                                            *)
(***************************************************************************)
card_rank(card) == card % 13

card_suit(card) == card \div 13

\* _score_5 of a 5-card sequence: a tuple <<category, tie-breaks...>>
score_5(cards) ==
    LET ranks == SortedDesc([i \in 1..5 |-> card_rank(cards[i])])
        suits == {card_suit(cards[i]) : i \in 1..5}
        is_flush == Cardinality(suits) = 1
        rankset == {ranks[i] : i \in 1..5}
        unique_ranks == SetToDesc(rankset)
        wheel == unique_ranks = <<12, 3, 2, 1, 0>>
        run == Len(unique_ranks) = 5 /\ unique_ranks[1] - unique_ranks[5] = 4
        is_straight == Len(unique_ranks) = 5 /\ (run \/ wheel)
        straight_high == IF Len(unique_ranks) = 5 /\ wheel THEN 3
                         ELSE IF run THEN unique_ranks[1] ELSE 0
        counts == [r \in rankset |-> Cardinality({i \in 1..5 : ranks[i] = r})]
        freq == SortedDesc([i \in 1..Len(unique_ranks) |-> counts[unique_ranks[i]]])
        \* sorted(counts.keys(), key=(counts[r], r), reverse=True)
        keyed == SetToDesc({counts[r] * 13 + r : r \in rankset})
        ranks_by_freq == [i \in 1..Len(keyed) |-> keyed[i] % 13]
    IN  IF is_straight /\ is_flush THEN <<8, straight_high>>
        ELSE IF freq = <<4, 1>> THEN <<7>> \o ranks_by_freq
        ELSE IF freq = <<3, 2>> THEN <<6>> \o ranks_by_freq
        ELSE IF is_flush THEN <<5>> \o ranks
        ELSE IF is_straight THEN <<4, straight_high>>
        ELSE IF freq = <<3, 1, 1>> THEN <<3>> \o ranks_by_freq
        ELSE IF freq = <<2, 2, 1>> THEN <<2>> \o ranks_by_freq
        ELSE IF freq = <<2, 1, 1, 1>> THEN <<1>> \o ranks_by_freq
        ELSE <<0>> \o ranks

\* the 5-card combinations of a card sequence, each in the sequence's order
Combos5(cards) ==
    LET n == Len(cards)
        pick(S) == LET RECURSIVE build(_)
                       build(i) == IF i > n THEN <<>>
                                   ELSE IF i \in S THEN <<cards[i]>> \o build(i + 1)
                                   ELSE build(i + 1)
                   IN  build(1)
    IN  {pick(S) : S \in {T \in SUBSET (1..n) : Cardinality(T) = 5}}

\* the r-tuples itertools.combinations yields from the positions from..n, in
\* its order: those that begin with the first position, then the others
RECURSIVE PositionsFrom(_, _, _)
PositionsFrom(from, n, r) ==
    IF r = 0 THEN << <<>> >>
    ELSE IF n - from + 1 < r THEN <<>>
    ELSE LET tails == PositionsFrom(from + 1, n, r - 1)
         IN  [j \in 1..Len(tails) |-> <<from>> \o tails[j]]
                 \o PositionsFrom(from + 1, n, r)

\* the positions itertools.combinations(range(n), 5) yields, in its order
\* (positions from 1)
PositionsOf(n) == PositionsFrom(1, n, 5)

\* PositionsOf for the lengths of the lists the engine and the rollouts
\* evaluate, computed once
CombinationPositions == [n \in 5..11 |-> PositionsOf(n)]

\* itertools.combinations(card_list, 5): the 5-card subsequences in the
\* order of their positions
combinations(card_list) ==
    IF Len(card_list) < 5 THEN <<>>
    ELSE LET at == IF Len(card_list) \in DOMAIN CombinationPositions
                   THEN CombinationPositions[Len(card_list)]
                   ELSE PositionsOf(Len(card_list))
         IN  [j \in 1..Len(at) |-> [i \in 1..5 |-> card_list[at[j][i]]]]

\* if best is None or score > best: best = score
Better(best, score) ==
    IF best = None \/ TupleGreater(score, best[1]) THEN Loaded(score) ELSE best

\* the loop of evaluate_hand over the combinations lo..hi, entered with best:
\* the first half of the iterations, then the second
RECURSIVE BestFrom(_, _, _, _)
BestFrom(combos, lo, hi, best) ==
    IF lo > hi THEN best
    ELSE IF lo = hi THEN Better(best, score_5(combos[lo]))
    ELSE LET mid == (lo + hi) \div 2
         IN  CHOOSE last \in {BestFrom(combos, mid + 1, hi, b) :
                                 b \in {BestFrom(combos, lo, mid, best)}} : TRUE

\* evaluate_hand without its loop: the score of the first five cards
evaluate_hand_first(cards) ==
    IF Len(cards) < 5 THEN <<>> ELSE score_5(SubSeq(cards, 1, 5))

\* evaluate_hand: the best score the loop finds; None (here <<>>) when fewer
\* than 5 cards are given
evaluate_hand(cards) ==
    LET combos == combinations(cards)
        best == BestFrom(combos, 1, Len(combos), None)
    IN  IF best = None THEN <<>> ELSE best[1]


\* state.deck is a permutation of the 52 cards that never changes after
\* deal_new_hand; the state holds its index in DeckCards.  Cards 1..6 are the
\* hole cards, cards 7..11 the board of a hand played to the river.
Shuffled(first) ==
    LET rest == {c \in 0..51 : \A i \in 1..Len(first) : first[i] # c}
        RECURSIVE asc(_)
        asc(S) == IF S = {} THEN <<>>
                  ELSE LET m == CHOOSE x \in S : \A y \in S : x <= y
                       IN  <<m>> \o asc(S \ {m})
    IN  first \o asc(rest)

DeckCards ==
    << Shuffled(<<0, 18, 11, 24, 12, 25, 27, 45, 35, 4, 15>>),    \* P2 > P1 > P0
       Shuffled(<<13, 14, 26, 27, 39, 40, 8, 9, 10, 11, 12>>) >>  \* the board plays: all tie

Decks == DOMAIN DeckCards

Deck(s) == DeckCards[s.deck]

\* evaluate_hand(hole_cards[p] + board) for the hands the decks deal in
\* order, evaluated once: the board is the first k cards after the hole cards
DealtHand(deck, p, k) ==
    <<DeckCards[deck][2 * p + 1], DeckCards[deck][2 * p + 2]>> \o SubSeq(DeckCards[deck], 7, 6 + k)

Evaluated ==
    [deck \in Decks |-> [p \in Players |-> [k \in 0..9 |->
        evaluate_hand(DealtHand(deck, p, k))]]]

\* h = evaluate_hand(state.hole_cards[p] + state.board)
showdown_hand(s, p) ==
    LET k == Len(s.board)
    IN  IF k <= 9 /\ s.hole_cards[p] \o s.board = DealtHand(s.deck, p, k)
        THEN Evaluated[s.deck][p][k]
        ELSE evaluate_hand(s.hole_cards[p] \o s.board)

(***************************************************************************)
(* abstraction/actions.py                                                  *)
(***************************************************************************)
to_call(s) == MaxSeat(s.bets) - s.bets[PyIdx(s.current_player)]

max_bet(s) == MaxSeat(s.bets)

\* pot as seen by the current player, including the bet being faced
pot_for_acting(s) == s.pot + to_call(s)

\* _min_raise_total without the last raise
min_raise_total_flat(s) == max_bet(s)

min_raise_total(s) == max_bet(s) + s.last_raise_amount

\* the preflop loop over PREFLOP_RAISE_BB: sizes below the minimum raise are
\* skipped, the first size above the stack ends the loop
PreflopRaises(s) ==
    LET stack == s.stacks[PyIdx(s.current_player)]
        mrt == min_raise_total(s)
        considered == [i \in 0..6 |-> PREFLOP_RAISE_BB[i] >= mrt]
        broke == [i \in 0..6 |->
                     \E j \in 0..i : considered[j] /\ PREFLOP_RAISE_BB[j] > stack]
        kept == [i \in 0..6 |-> considered[i] /\ ~broke[i]]
    IN  {i \in 0..6 : kept[i] /\ ~\E j \in 0..(i - 1) :
                                   kept[j] /\ PREFLOP_RAISE_BB[j] = PREFLOP_RAISE_BB[i]}

\* total_bet of postflop size i: to_call + pot * mult
PostflopTotal(s, i) == to_call(s) + PotTimes(pot_for_acting(s), i)

PostflopRaises(s) ==
    LET stack == s.stacks[PyIdx(s.current_player)]
        facing == max_bet(s) > 0
        mrt == IF facing THEN min_raise_total(s) ELSE 0
        total_bet == [i \in 0..6 |-> PostflopTotal(s, i)]
        kept == [i \in 0..6 |-> /\ ~(facing /\ total_bet[i] < mrt)
                                /\ ~(total_bet[i] > stack)]
    IN  {i \in 0..6 : kept[i] /\ ~\E j \in 0..(i - 1) :
                                   kept[j] /\ total_bet[j] = total_bet[i]}

\* the indices get_legal_action_indices collects in `legal`
LegalSet(s) ==
    LET p == PyIdx(s.current_player)
        tc == to_call(s)
        stack == s.stacks[p]
        is_preflop == s.round_idx = 0
        base == IF tc > 0
                THEN {0} \cup (IF stack >= tc THEN {1} ELSE {})
                ELSE {1}
        chips_after_call == stack - tc
    IN  IF ~s.active[p] \/ s.all_in[p] THEN {}
        ELSE IF chips_after_call <= 0
        THEN base \cup (IF stack > 0 THEN {9} ELSE {})
        ELSE IF is_preflop
        THEN LET mrt == min_raise_total(s)
                 raises == PreflopRaises(s)
                 seen_totals == {PREFLOP_RAISE_BB[i] : i \in raises}
             IN  base \cup {2 + i : i \in raises}
                      \cup (IF stack > 0 /\ (stack >= mrt \/ tc > 0)
                               /\ stack \notin seen_totals
                            THEN {9} ELSE {})
        ELSE LET mrt == IF max_bet(s) > 0 THEN min_raise_total(s) ELSE 0
             IN  base \cup {2 + i : i \in PostflopRaises(s)}
                      \cup (IF stack > 0 /\ (stack >= mrt \/ tc > 0)
                            THEN {9} ELSE {})

\* get_legal_action_indices never offering Fold
get_legal_action_indices_nofold(s) ==
    LET legal == LegalSet(s) \ {0}
    IN  SelectSeq([i \in 1..NUM_ACTIONS |-> i - 1], LAMBDA a : a \in legal)

\* sorted(legal): the indices 0..9 in ascending order, those of `legal` kept
get_legal_action_indices(s) ==
    LET legal == LegalSet(s)
    IN  SelectSeq([i \in 1..NUM_ACTIONS |-> i - 1], LAMBDA a : a \in legal)

Min(a, b) == IF a < b THEN a ELSE b

\* action_index_to_chips: <<is_fold, total_bet_this_street>>
action_index_to_chips(s, action_index) ==
    LET p == PyIdx(s.current_player)
        tc == to_call(s)
        stack == s.stacks[p]
    IN  IF action_index = 0 THEN <<TRUE, s.bets[p]>>
        ELSE IF action_index = 1
        THEN IF tc > 0 THEN <<FALSE, s.bets[p] + Min(tc, stack)>>
             ELSE <<FALSE, s.bets[p]>>
        ELSE IF action_index = 9 THEN <<FALSE, s.bets[p] + stack>>
        ELSE IF s.round_idx = 0 THEN <<FALSE, PREFLOP_RAISE_BB[action_index - 2]>>
        ELSE <<FALSE, Min(PostflopTotal(s, action_index - 2), stack)>>

(***************************************************************************)
(* env/game_state.py                                                       *)
(***************************************************************************)
\* deal_new_hand with the shuffle drawing permutation number `deck` of DeckCards
deal_new_hand(deck) ==
    [ deck |-> deck,
      deck_idx |-> 6,
      hole_cards |-> [p \in Players |-> <<DeckCards[deck][2 * p + 1], DeckCards[deck][2 * p + 2]>>],
      board |-> <<>>,
      round_idx |-> 0,
      stacks |-> [p \in Players |-> CASE p = 1 -> STARTING_STACK_BB - SMALL_BLIND_BB
                                      [] p = 2 -> STARTING_STACK_BB - BIG_BLIND_BB
                                      [] OTHER -> STARTING_STACK_BB],
      pot |-> SMALL_BLIND_BB + BIG_BLIND_BB,
      bets |-> [p \in Players |-> CASE p = 1 -> SMALL_BLIND_BB
                                    [] p = 2 -> BIG_BLIND_BB
                                    [] OTHER -> 0],
      active |-> [p \in Players |-> TRUE],
      all_in |-> [p \in Players |-> FALSE],
      current_player |-> 0,
      action_history |-> <<>>,
      last_raiser |-> 2,
      last_raise_amount |-> BIG_BLIND_BB,
      done |-> FALSE,
      chance_pending |-> FALSE,
      undo_stack |-> <<>> ]

get_payoffs(s) == [p \in Players |-> s.stacks[p] - STARTING_STACK_BB]

(***************************************************************************)
(* env/game_logic.py                                                       *)
(***************************************************************************)
get_current_player(s) == IF s.done \/ s.chance_pending THEN -1 ELSE s.current_player

get_legal_actions(s) ==
    IF s.done \/ s.chance_pending THEN <<>> ELSE get_legal_action_indices(s)

Range(q) == {q[i] : i \in 1..Len(q)}

is_terminal(s) == s.done

is_chance_node(s) == s.chance_pending /\ ~s.done

\* the winner loop of _resolve_side_pots over eligible_win, in seat order,
\* h[p] being evaluate_hand(hole_cards[p] + board): a later seat replaces the
\* best only with a strictly better hand; with fewer than five cards every
\* score is None and each seat replaces the last
SliceWinner(h, eligible_win) ==
    IF \A p \in eligible_win : h[p] = <<>>
    THEN MaxOf(eligible_win)
    ELSE CHOOSE w \in eligible_win :
            /\ \A q \in eligible_win : ~TupleGreater(h[q], h[w])
            /\ \A q \in eligible_win : q < w => TupleGreater(h[w], h[q])

\* _resolve_side_pots with each layer counting the chips of the players still
\* in the hand only
resolve_side_pots_live(s, contributions) ==
    LET levels == {contributions[p] : p \in {q \in Players : contributions[q] > 0}}
        h == [p \in Players |-> IF s.active[p] THEN showdown_hand(s, p) ELSE <<>>]
        prevOf(level) == IF \E l \in levels : l < level
                         THEN MaxOf({l \in levels : l < level}) ELSE 0
        eligible_win(level) == {p \in Players : contributions[p] >= level /\ s.active[p]}
        slice_size(level) == (level - prevOf(level)) * Cardinality(eligible_win(level))
        awarded(level) == slice_size(level) > 0 /\ eligible_win(level) # {}
        winner == [l \in levels |-> IF awarded(l) THEN SliceWinner(h, eligible_win(l))
                                    ELSE -1]
        RECURSIVE total(_)
        total(L) == IF L = {} THEN 0
                    ELSE LET l == MaxOf(L) IN slice_size(l) + total(L \ {l})
    IN  [p \in Players |-> s.stacks[p] + total({l \in levels : winner[l] = p})]

\* _resolve_side_pots with every layer open to every player still in the hand,
\* whatever that player put in
resolve_side_pots_open(s, contributions) ==
    LET levels == {contributions[p] : p \in {q \in Players : contributions[q] > 0}}
        h == [p \in Players |-> IF s.active[p] THEN showdown_hand(s, p) ELSE <<>>]
        prevOf(level) == IF \E l \in levels : l < level
                         THEN MaxOf({l \in levels : l < level}) ELSE 0
        eligible_count(level) == {p \in Players : contributions[p] >= level}
        slice_size(level) == (level - prevOf(level)) * Cardinality(eligible_count(level))
        eligible_win(level) == {p \in Players : s.active[p]}
        awarded(level) == slice_size(level) > 0 /\ eligible_win(level) # {}
        winner == [l \in levels |-> IF awarded(l) THEN SliceWinner(h, eligible_win(l))
                                    ELSE -1]
        RECURSIVE total(_)
        total(L) == IF L = {} THEN 0
                    ELSE LET l == MaxOf(L) IN slice_size(l) + total(L \ {l})
    IN  [p \in Players |-> s.stacks[p] + total({l \in levels : winner[l] = p})]

\* _resolve_side_pots: the stacks after every layer has been awarded
resolve_side_pots(s, contributions) ==
    LET levels == {contributions[p] : p \in {q \in Players : contributions[q] > 0}}
        h == [p \in Players |-> IF s.active[p] THEN showdown_hand(s, p) ELSE <<>>]
        prevOf(level) == IF \E l \in levels : l < level
                         THEN MaxOf({l \in levels : l < level}) ELSE 0
        eligible_count(level) == {p \in Players : contributions[p] >= level}
        slice_size(level) == (level - prevOf(level)) * Cardinality(eligible_count(level))
        eligible_win(level) == {p \in eligible_count(level) : s.active[p]}
        awarded(level) == slice_size(level) > 0 /\ eligible_win(level) # {}
        winner == [l \in levels |-> IF awarded(l) THEN SliceWinner(h, eligible_win(l))
                                    ELSE -1]
        RECURSIVE total(_)
        total(L) == IF L = {} THEN 0
                    ELSE LET l == MaxOf(L) IN slice_size(l) + total(L \ {l})
    IN  [p \in Players |-> s.stacks[p] + total({l \in levels : winner[l] = p})]

\* _resolve_hand: fold winner, or showdown with side pots
resolve_hand(s) ==
    LET active == {p \in Players : s.active[p]}
        contributions == [p \in Players |-> STARTING_STACK_BB - s.stacks[p]]
    IN  IF Cardinality(active) = 1
        THEN LET w == CHOOSE p \in active : TRUE
             IN  [s EXCEPT !.done = TRUE, !.stacks[w] = @ + s.pot]
        ELSE [s EXCEPT !.done = TRUE, !.stacks = resolve_side_pots(s, contributions)]

\* the dealing loop of _run_out_board_and_resolve
RECURSIVE run_out_board(_)
run_out_board(s) ==
    IF Len(s.board) < 5
    THEN LET n == IF s.round_idx = 0 THEN 3 ELSE 1
         IN  run_out_board([s EXCEPT
                 !.board = @ \o [i \in 1..n |-> Deck(s)[s.deck_idx + i]],
                 !.deck_idx = @ + n,
                 !.round_idx = @ + 1])
    ELSE s

run_out_board_and_resolve(s) == resolve_hand(run_out_board(s))

CanAct(s) == {i \in Players : s.active[i] /\ ~s.all_in[i]}

\* hist[start:], the actions since the last DEAL
RoundActions(s) ==
    LET hist == s.action_history
        deals == {i \in 1..Len(hist) : hist[i] = DEAL}
        start == IF deals = {} THEN 0 ELSE MaxOf(deals)
    IN  SubSeq(hist, start + 1, Len(hist))

\* order[idx % 3]: the seat the engine takes to have made the idx-th action
\* (idx from 0) of the street
OrderSeat(s, idx) ==
    IF s.round_idx = 0 THEN idx % 3 ELSE (idx + 1) % 3

who_acted_this_round(s) ==
    {OrderSeat(s, i - 1) : i \in 1..Len(RoundActions(s))}

is_round_complete(s) ==
    LET can_act == CanAct(s)
        acted == who_acted_this_round(s)
        ra == RoundActions(s)
        \* positions are 0-based as in the source
        raises == {i \in 0..(Len(ra) - 1) :
                      ra[i + 1] \notin {0, 1} /\ OrderSeat(s, i) = s.last_raiser}
        raise_idx == IF raises = {} THEN -1 ELSE MaxOf(raises)
        found_after(p) == \E i \in 0..(Len(ra) - 1) : i > raise_idx /\ OrderSeat(s, i) = p
    IN  IF can_act = {} THEN TRUE
        ELSE IF \E p \in can_act : p \notin acted THEN FALSE
        ELSE IF Cardinality({s.bets[p] : p \in can_act}) > 1 THEN FALSE
        ELSE IF s.last_raiser >= 0 /\ s.last_raiser \in can_act /\ raise_idx >= 0
        THEN \A p \in can_act : p = s.last_raiser \/ found_after(p)
        ELSE TRUE

\* the seat search of _advance_to_next_player
RECURSIVE NextSeat(_, _)
NextSeat(s, p) ==
    IF ~s.active[p] \/ s.all_in[p] THEN NextSeat(s, (p + 1) % NUM_PLAYERS) ELSE p

\* _advance_to_next_player handing the turn to the next seat whatever its status
advance_to_next_player_noskip(s) ==
    IF Cardinality(CanAct(s)) <= 1 THEN run_out_board_and_resolve(s)
    ELSE IF is_round_complete(s)
    THEN IF s.round_idx >= 3 THEN resolve_hand(s)
         ELSE [s EXCEPT !.chance_pending = TRUE, !.current_player = -1]
    ELSE [s EXCEPT !.current_player = (s.current_player + 1) % NUM_PLAYERS]

advance_to_next_player(s) ==
    IF Cardinality(CanAct(s)) <= 1 THEN run_out_board_and_resolve(s)
    ELSE IF is_round_complete(s)
    THEN IF s.round_idx >= 3 THEN resolve_hand(s)
         ELSE [s EXCEPT !.chance_pending = TRUE, !.current_player = -1]
    ELSE [s EXCEPT !.current_player = NextSeat(s, (s.current_player + 1) % NUM_PLAYERS)]

\* the snapshot apply_action pushes
ActionRecord(s) ==
    [ kind |-> "ACTION",
      stacks |-> s.stacks, pot |-> s.pot, bets |-> s.bets,
      active |-> s.active, all_in |-> s.all_in,
      last_raiser |-> s.last_raiser, last_raise_amount |-> s.last_raise_amount,
      current_player |-> s.current_player ]

\* apply_action up to (not including) the single-winner test: the undo
\* record is pushed, the action appended and the chips moved.  p is the raw
\* current_player; list accesses go through Python indexing
apply_chips(s, action_index) ==
    LET p == s.current_player
        i == PyIdx(p)
        chips == action_index_to_chips(s, action_index)
        is_fold == chips[1]
        total_bet == chips[2]
        s1 == [s EXCEPT !.undo_stack = Append(@, ActionRecord(s)),
                        !.action_history = Append(@, action_index)]
        add == total_bet - s.bets[i]
        newbets == [s.bets EXCEPT ![i] = total_bet]
        raised == add > 0 /\ total_bet > MaxOf({newbets[q] : q \in Players \ {p}})
    IN  IF is_fold
        THEN [s1 EXCEPT !.active[i] = FALSE]
        ELSE [s1 EXCEPT
                !.stacks[i] = @ - add,
                !.bets = newbets,
                !.pot = @ + add,
                !.last_raiser = IF raised THEN p ELSE @,
                !.last_raise_amount = IF raised THEN add ELSE @,
                !.all_in[i] = IF s.stacks[i] - add <= 0 THEN TRUE ELSE @]

\* apply_action without its single-winner test
apply_action_advance(s, action_index) ==
    advance_to_next_player(apply_chips(s, action_index))

apply_action(s, action_index) ==
    LET s2 == apply_chips(s, action_index)
        active_count == Cardinality({q \in Players : s2.active[q]})
    IN  IF active_count = 1 THEN resolve_hand(s2)
        ELSE advance_to_next_player(s2)

\* the record sample_chance pushes
DealRecord(s, n) ==
    [ kind |-> "DEAL", n |-> n, bets |-> s.bets,
      last_raiser |-> s.last_raiser, last_raise_amount |-> s.last_raise_amount ]

\* a sample_chance that deals nothing and leaves the chance pending
sample_chance_none(s) == s

sample_chance(s) ==
    IF ~s.chance_pending \/ s.done THEN s
    ELSE LET n == IF s.round_idx = 0 THEN 3 ELSE 1
             s1 == [s EXCEPT
                      !.board = @ \o [i \in 1..n |-> Deck(s)[s.deck_idx + i]],
                      !.deck_idx = @ + n,
                      !.action_history = Append(@, DEAL),
                      !.round_idx = @ + 1,
                      !.chance_pending = FALSE,
                      !.undo_stack = Append(@, DealRecord(s, n)),
                      !.bets = [p \in Players |-> 0],
                      !.last_raiser = -1,
                      !.last_raise_amount = 0]
             \* postflop order: P1, then P2, then P0
             first == {o \in 1..NUM_PLAYERS : (o % NUM_PLAYERS) \in CanAct(s1)}
         IN  IF first # {}
             THEN [s1 EXCEPT !.current_player =
                                (CHOOSE o \in first : \A o2 \in first : o <= o2) % NUM_PLAYERS]
             ELSE run_out_board_and_resolve(s1)

Front(q) == SubSeq(q, 1, Len(q) - 1)

undo_action(s) ==
    IF s.undo_stack = <<>> THEN s
    ELSE LET top == s.undo_stack[Len(s.undo_stack)]
             s1 == [s EXCEPT !.undo_stack = Front(@)]
         IN  IF top.kind = "DEAL"
             THEN [s1 EXCEPT
                     !.action_history = Front(@),
                     !.round_idx = @ - 1,
                     !.deck_idx = @ - top.n,
                     !.board = SubSeq(@, 1, Len(@) - top.n),
                     !.chance_pending = TRUE,
                     !.current_player = -1,
                     !.bets = top.bets,
                     !.last_raiser = top.last_raiser,
                     !.last_raise_amount = top.last_raise_amount]
             ELSE [s1 EXCEPT
                     !.action_history = Front(@),
                     !.stacks = top.stacks,
                     !.pot = top.pot,
                     !.bets = top.bets,
                     !.active = top.active,
                     !.all_in = top.all_in,
                     !.last_raiser = top.last_raiser,
                     !.last_raise_amount = top.last_raise_amount,
                     !.current_player = top.current_player,
                     !.done = FALSE]


(***************************************************************************)
(* abstraction/bucketing.py and abstraction/info_set.py                    *)
(*                                                                         *)
(* An equity is a number of half wins out of 2 * N_ROLLOUTS, and a cluster *)
(* centre is held in the same unit.  _estimate_equity shuffles with the    *)
(* random module, so that get_bucket and get_info_key are modelled by the  *)
(* set of the values a call can return.                                    *)
(***************************************************************************)
PREFLOP_BUCKETS == 15
FLOP_BUCKETS == 50
TURN_BUCKETS == 50
RIVER_BUCKETS == 50
N_ROLLOUTS == 100

\* the globals as the import leaves them, and as _load_tables leaves them
\* when data/ holds no file
NoTables ==
    [ preflop_table |-> None, flop_centers |-> None,
      turn_centers |-> None, river_centers |-> None ]

\* tables as build_buckets.py writes them: canonical hand -> bucket, and a
\* list of centres per street
BuiltTables ==
    [ preflop_table |-> Loaded([c \in 0..168 |-> (c * PREFLOP_BUCKETS) \div 169]),
      flop_centers |-> Loaded(<<40, 50, 60>>),
      turn_centers |-> Loaded(<<40, 50>>),
      river_centers |-> Loaded(<<20, 100, 180>>) ]

\* what _load_tables can leave in the globals: no file, all four files, the
\* preflop file only
BucketTables ==
    { NoTables, BuiltTables,
      [NoTables EXCEPT !.preflop_table = BuiltTables.preflop_table] }

\* _hole_to_canonical without the offsuit bit
hole_to_canonical_no_suit(hole_cards) ==
    LET r0 == hole_cards[1] % 13
        r1 == hole_cards[2] % 13
        high == IF r0 >= r1 THEN r0 ELSE r1
        low == IF r0 >= r1 THEN r1 ELSE r0
    IN  IF high = low THEN high ELSE 13 + (high - 1) * high + 2 * low

hole_to_canonical(hole_cards) ==
    LET r0 == hole_cards[1] % 13
        r1 == hole_cards[2] % 13
        s0 == hole_cards[1] \div 13
        s1 == hole_cards[2] \div 13
        high == IF r0 >= r1 THEN r0 ELSE r1
        low == IF r0 >= r1 THEN r1 ELSE r0
    IN  IF high = low THEN high
        ELSE 13 + (high - 1) * high + 2 * low + (IF s0 = s1 THEN 0 ELSE 1)

preflop_fallback(hole_cards) ==
    LET r0 == hole_cards[1] % 13
        r1 == hole_cards[2] % 13
        high == IF r0 >= r1 THEN r0 ELSE r1
        low == IF r0 >= r1 THEN r1 ELSE r0
        suited == (hole_cards[1] \div 13) = (hole_cards[2] \div 13)
        score == high * 13 + low + (IF high = low THEN 100 ELSE 0)
                                 + (IF suited THEN 20 ELSE 0)
    IN  ((score * PREFLOP_BUCKETS) \div (12 * 13 + 12 + 100 + 20 + 1)) % PREFLOP_BUCKETS

\* evaluate_hand(hole_cards + board), read from Evaluated for a dealt hand
hand_of(hole_cards, board) ==
    LET k == Len(board)
        dealt == {<<d, p>> \in Decks \X Players :
                     k <= 9 /\ hole_cards \o board = DealtHand(d, p, k)}
    IN  IF dealt # {} THEN LET dp == CHOOSE x \in dealt : TRUE
                           IN  Evaluated[dp[1]][dp[2]][k]
        ELSE evaluate_hand(hole_cards \o board)

postflop_fallback(hole_cards, board, num_buckets) ==
    IF Len(hole_cards) + Len(board) < 5 THEN 0
    ELSE ((hand_of(hole_cards, board)[1] * num_buckets) \div 9) % num_buckets

\* board[:board_len]
Prefix(q, n) == SubSeq(q, 1, Min(n, Len(q)))

\* the orders random.shuffle is taken to leave the unused cards in:
\* ascending and descending
Rests(used) ==
    LET S == (0..51) \ used
        RECURSIVE asc(_)
        asc(T) == IF T = {} THEN <<>>
                  ELSE LET m == CHOOSE x \in T : \A y \in T : x <= y
                       IN  <<m>> \o asc(T \ {m})
    IN  {asc(S), SetToDesc(S)}

\* one rollout of _estimate_equity on the shuffled rest: the half wins added
rollout(hole_cards, board, board_len, rest) ==
    LET opp == SubSeq(rest, 1, 2)
        runout == IF board_len = 3 THEN SubSeq(rest, 3, 7)
                  ELSE IF board_len = 4 THEN SubSeq(rest, 3, 6)
                  ELSE <<>>
        full_board == Prefix(board, board_len) \o runout
        my_hand == evaluate_hand(hole_cards \o full_board)
        opp_hand == evaluate_hand(opp \o full_board)
    IN  IF Len(full_board) < 5 THEN 0
        ELSE IF TupleGreater(my_hand, opp_hand) THEN 2
        ELSE IF my_hand = opp_hand THEN 1
        ELSE 0

\* the half wins one rollout can add
rollouts(hole_cards, board, board_len) ==
    LET used == Range(hole_cards) \cup Range(Prefix(board, board_len))
    IN  {rollout(hole_cards, board, board_len, rest) : rest \in Rests(used)}

\* rollouts for the hands the decks deal, evaluated once
Rolled ==
    [deck \in Decks |-> [p \in Players |-> [k \in 3..5 |->
        rollouts(SubSeq(DealtHand(deck, p, 0), 1, 2),
                 SubSeq(DeckCards[deck], 7, 6 + k), k)]]]

\* the sums of n terms of O, a set of half wins 0, 1, 2: n1 terms are 1,
\* n2 terms are 2 and the others are 0
SumsOf(O, n) ==
    {c[1] + 2 * c[2] : c \in {d \in (0..n) \X (0..n) :
                                  /\ d[1] + d[2] <= n
                                  /\ d[1] > 0 => 1 \in O
                                  /\ d[2] > 0 => 2 \in O
                                  /\ d[1] + d[2] < n => 0 \in O}}

Wins == [O \in (SUBSET {0, 1, 2}) \ {{}} |-> SumsOf(O, N_ROLLOUTS)]

\* _estimate_equity: the estimates a call can return
estimate_equity(hole_cards, board, board_len) ==
    LET dealt == {<<d, p>> \in Decks \X Players :
                     /\ board_len \in 3..5 /\ Len(board) = board_len
                     /\ hole_cards \o board = DealtHand(d, p, board_len)}
    IN  IF dealt # {} THEN LET dp == CHOOSE x \in dealt : TRUE
                           IN  Wins[Rolled[dp[1]][dp[2]][board_len]]
        ELSE Wins[rollouts(hole_cards, board, board_len)]

Abs(x) == IF x < 0 THEN -x ELSE x

\* the bucket of one estimate: the nearest centre, the first of them on a
\* tie.  With an empty list the code returns int(eq * num_buckets), a float
\* product that is taken here as exact.
nearest_bucket(eq, centers, num_buckets) ==
    IF Len(centers) = 0
    THEN ((eq * num_buckets) \div (2 * N_ROLLOUTS)) % num_buckets
    ELSE LET d(i) == Abs(eq - centers[i])
             best == CHOOSE i \in 1..Len(centers) :
                        /\ \A j \in 1..Len(centers) : d(i) <= d(j)
                        /\ \A j \in 1..(i - 1) : d(j) > d(i)
         IN  (best - 1) % num_buckets

equity_to_bucket(hole_cards, board, board_len, centers, num_buckets) ==
    {nearest_bucket(eq, centers, num_buckets) :
        eq \in estimate_equity(hole_cards, board, board_len)}

\* the number of buckets of a round
BucketsOf(round_idx) ==
    IF round_idx = 0 THEN PREFLOP_BUCKETS
    ELSE IF round_idx = 1 THEN FLOP_BUCKETS
    ELSE IF round_idx = 2 THEN TURN_BUCKETS
    ELSE RIVER_BUCKETS

\* get_bucket with the globals t: the buckets a call can return.  The three
\* postflop branches (round 1, 2, 3 with at least 3, 4, 5 board cards) differ
\* in the board length, the centres and the number of buckets only.
get_bucket(t, hole_cards, board, round_idx) ==
    IF round_idx = 0 THEN
        IF t.preflop_table # None
        THEN LET canonical == hole_to_canonical(hole_cards)
                 table == t.preflop_table[1]
             IN  {(IF canonical \in DOMAIN table
                   THEN table[canonical] ELSE 0) % PREFLOP_BUCKETS}
        ELSE {preflop_fallback(hole_cards) % PREFLOP_BUCKETS}
    ELSE IF round_idx \in 1..3 /\ Len(board) >= round_idx + 2 THEN
        LET centers == IF round_idx = 1 THEN t.flop_centers
                       ELSE IF round_idx = 2 THEN t.turn_centers
                       ELSE t.river_centers
        IN  IF centers # None
            THEN equity_to_bucket(hole_cards, board, round_idx + 2, centers[1],
                                  BucketsOf(round_idx))
            ELSE {postflop_fallback(hole_cards, board, BucketsOf(round_idx))}
    ELSE {0}

\* get_info_key: the keys <<bucket, action_history>> a call can return
get_info_key(t, s, player) ==
    {<<b, s.action_history>> :
        b \in get_bucket(t, s.hole_cards[PyIdx(player)], s.board, s.round_idx)}

(***************************************************************************)
(* The engine driven by a caller: a hand is dealt, then legal actions are  *)
(* applied, chance nodes sampled and operations undone in any order.       *)
(***************************************************************************)
\* the caller makes at most MaxRaises bets or raises (indices 2..9) in a hand
MaxRaises == 1

\* bets and raises (indices 2..9) in the hand's history
Raises(s) == Cardinality({i \in 1..Len(s.action_history) :
                             s.action_history[i] \in 2..9})

\* the legal actions a caller tries in forward play
Explored(s) ==
    LET legal == Range(get_legal_actions(s))
        may_raise == Raises(s) < MaxRaises
    IN  {a \in legal : a >= 2 => may_raise}

\* the legal actions a caller that also undoes tries: of the sized raises
\* only the smallest legal one
ExploredUndo(s) ==
    LET explored == Explored(s)
    IN  {a \in explored : a \in 2..8 => \A b \in explored : b >= 2 => b >= a}

PRUNE_THRESHOLD == -300

PRUNE_WARM_UP_ITERATIONS == 100

\* CFRTrainer.__init__ with its default arguments: empty tables, iteration 0
NewTrainer ==
    [ regret_sum |-> <<>>, strategy_sum |-> <<>>, action_map |-> <<>>,
      iteration |-> 0, use_linear_cfr |-> TRUE,
      prune_threshold |-> Loaded(PRUNE_THRESHOLD),
      prune_warm_up |-> PRUNE_WARM_UP_ITERATIONS ]

\* what the engine's operations leave alone
frame == <<calls, trainer, bucketing, lookup, training, disk, probe, builder>>

\* no call of cfr_traverse, a trainer as constructed, no table, no key asked,
\* no call of train, no checkpoint written, no function called, no table built
Idle ==
    /\ calls = <<>> /\ trainer = NewTrainer /\ bucketing = NoTables /\ lookup = <<>>
    /\ training = None /\ disk = None /\ probe = None /\ builder = None

\* a hand dealt from the first deck
Init == Idle /\ state = deal_new_hand(1)

\* a hand dealt from any of the decks
InitPlay == Idle /\ \E deck \in Decks : state = deal_new_hand(deck)

Apply == UNCHANGED frame /\ \E a \in Explored(state) : state' = apply_action(state, a)

ApplySome == UNCHANGED frame /\ \E a \in ExploredUndo(state) : state' = apply_action(state, a)

Chance == is_chance_node(state) /\ state' = sample_chance(state) /\ UNCHANGED frame

Undo == state.undo_stack # <<>> /\ state' = undo_action(state) /\ UNCHANGED frame

\* the engine with every operation: apply_action, sample_chance, undo_action
Next == ApplySome \/ Chance \/ Undo

Spec == Init /\ [][Next]_vars

\* legal play: apply_action and sample_chance only
Play == Apply \/ Chance

SpecPlay == InitPlay /\ [][Play]_vars

(***************************************************************************)
(* A caller that plays a hand and, at a decision node, asks for the info   *)
(* key of a seat, as cfr_traverse and the evaluation do.  The caller asks  *)
(* twice on the state, and once on a state that differs in what the seat   *)
(* does not see.                                                           *)
(***************************************************************************)
\* s with the other two seats holding each other's cards and with another
\* deck: what the seat sees (its cards, the board, the round, the history)
\* is as in s
Hidden(s, player) ==
    [s EXCEPT !.hole_cards = [q \in Players |->
                                 IF q = player THEN s.hole_cards[q]
                                 ELSE s.hole_cards[3 - player - q]],
              !.deck = CHOOSE d \in Decks : d # s.deck]

InitKey ==
    /\ calls = <<>> /\ trainer = NewTrainer /\ lookup = <<>> /\ training = None /\ disk = None
    /\ probe = None /\ builder = None
    /\ bucketing \in BucketTables
    /\ \E deck \in Decks : state = deal_new_hand(deck)

KeyApply ==
    /\ \E a \in ExploredUndo(state) : state' = apply_action(state, a)
    /\ lookup' = <<>>
    /\ UNCHANGED <<calls, trainer, bucketing, training, disk, probe, builder>>

KeyChance ==
    /\ is_chance_node(state) /\ state' = sample_chance(state)
    /\ lookup' = <<>>
    /\ UNCHANGED <<calls, trainer, bucketing, training, disk, probe, builder>>

GetInfoKey ==
    /\ lookup = <<>> /\ ~is_terminal(state) /\ ~is_chance_node(state)
    /\ \E player \in Players :
         \E key \in get_info_key(bucketing, state, player) :
         \E again \in get_info_key(bucketing, state, player) :
         \E other \in get_info_key(bucketing, Hidden(state, player), player) :
                lookup' = [player |-> player, key |-> key, again |-> again,
                           other |-> other]
    /\ UNCHANGED <<state, calls, trainer, bucketing, training, disk, probe, builder>>

Keys == KeyApply \/ KeyChance \/ GetInfoKey

SpecKey == InitKey /\ [][Keys]_vars

(***************************************************************************)
(* cfr/strategy.py and CFRTrainer.get_strategy.  Regrets, probabilities    *)
(* and values are floats in the code; here they are rationals              *)
(* <<numerator, denominator>> in lowest terms with a positive denominator, *)
(* and the arithmetic is exact.                                            *)
(***************************************************************************)
RECURSIVE GCD(_, _)
GCD(a, b) == IF b = 0 THEN a ELSE GCD(b, a % b)

Q(n, d) == LET g == GCD(Abs(n), d) IN <<n \div g, d \div g>>

QZero == Q(0, 1)

QAdd(x, y) ==
    LET g == GCD(x[2], y[2])
    IN  Q(x[1] * (y[2] \div g) + y[1] * (x[2] \div g), (x[2] \div g) * y[2])

QSub(x, y) == QAdd(x, <<-y[1], y[2]>>)

QMul(x, y) ==
    LET a == Q(x[1], y[2])
        b == Q(y[1], x[2])
    IN  <<a[1] * b[1], a[2] * b[2]>>

\* x / y for y > 0
QDiv(x, y) == QMul(x, <<y[2], y[1]>>)

RECURSIVE QSum(_)
QSum(q) == IF q = <<>> THEN QZero ELSE QAdd(Head(q), QSum(Tail(q)))

\* np.zeros(NUM_ACTIONS)
Zeros == [a \in 0..(NUM_ACTIONS - 1) |-> QZero]

\* regret matching that does not normalise the positive regrets
regret_matching_unnormalised(regret_sum, num_actions) ==
    IF num_actions <= 0 THEN <<>>
    ELSE LET regrets == IF Len(regret_sum) >= num_actions THEN regret_sum
                        ELSE [i \in 1..num_actions |-> QZero]
             positive == [i \in 1..num_actions |->
                             IF regrets[i][1] > 0 THEN regrets[i] ELSE QZero]
         IN  IF QSum(positive)[1] > 0 THEN positive
             ELSE [i \in 1..num_actions |-> Q(1, num_actions)]

regret_matching(regret_sum, num_actions) ==
    IF num_actions <= 0 THEN <<>>
    ELSE LET regrets == IF Len(regret_sum) >= num_actions THEN regret_sum
                        ELSE [i \in 1..num_actions |-> QZero]
             positive == [i \in 1..num_actions |->
                             IF regrets[i][1] > 0 THEN regrets[i] ELSE QZero]
             total == QSum(positive)
         IN  IF total[1] > 0
             THEN [i \in 1..num_actions |-> QDiv(positive[i], total)]
             ELSE [i \in 1..num_actions |-> Q(1, num_actions)]

\* dict.get(info_key, np.zeros(NUM_ACTIONS))
Get(table, info_key) == IF info_key \in DOMAIN table THEN table[info_key] ELSE Zeros

\* get_strategy reading the regrets by position instead of by action index
get_strategy_by_position(tr, info_key, legal_actions) ==
    LET regrets_full == Get(tr.regret_sum, info_key)
        regrets_sub == [i \in 1..Len(legal_actions) |-> regrets_full[i - 1]]
    IN  regret_matching(regrets_sub, Len(legal_actions))

\* CFRTrainer.get_strategy of the trainer tr; the arrays of regret_sum all
\* have NUM_ACTIONS entries, so that np.resize never applies
get_strategy(tr, info_key, legal_actions) ==
    LET regrets_full == Get(tr.regret_sum, info_key)
        regrets_sub == [i \in 1..Len(legal_actions) |-> regrets_full[legal_actions[i]]]
    IN  regret_matching(regrets_sub, Len(legal_actions))

(***************************************************************************)
(* CFRTrainer.cfr_traverse on the engine.  The one state object is shared  *)
(* by all activations; an activation is a record of calls:                 *)
(*   pc         where the activation stands: "enter", "loop" (the          *)
(*              traverser's for loop), "call_trav" / "call_opp" /          *)
(*              "call_chance" (inside the recursive call made from the     *)
(*              loop, the opponent branch, the chance branch), "return"    *)
(*   traverser  the argument                                               *)
(*   actions    the legal actions read at entry                            *)
(*   info_key   the key read at entry                                      *)
(*   strategy   get_strategy(info_key, actions) at entry                   *)
(*   values     the array of the loop                                      *)
(*   keep       the actions of the loop that the random draws of           *)
(*              _should_prune let through where it draws                   *)
(*   i          the loop position, from 1                                  *)
(*   applied    the loop positions whose action was applied, in order      *)
(*   node       what the state was at entry                                *)
(*   entry      the state at entry, its undo_stack left out                *)
(*   depth      the length of undo_stack at entry                          *)
(*   pushed     the length of undo_stack after the activation's            *)
(*              apply_action                                               *)
(*   ret        the value returned                                         *)
(***************************************************************************)
Activation(s, traverser) ==
    [ pc |-> "enter", traverser |-> traverser, actions |-> <<>>,
      info_key |-> <<>>, strategy |-> <<>>, values |-> <<>>, keep |-> {},
      i |-> 0, applied |-> <<>>, node |-> "none",
      entry |-> [s EXCEPT !.undo_stack = <<>>],
      depth |-> Len(s.undo_stack), pushed |-> 0, ret |-> QZero ]

Top == calls[Len(calls)]

SetTop(f) == [calls EXCEPT ![Len(calls)] = f]

\* the opponent actions the sampling draws and the traverser actions the
\* draws of _should_prune do not skip: the random draws taken are those that
\* stay within the bounds of the exploration
Sampled(s) == ExploredUndo(s)

\* _should_prune: what a call can return.  Below the threshold the answer is
\* np.random.random() < prune_skip_prob, either way for a probability
\* strictly between 0 and 1.  The threshold is a whole number, so a regret
\* is below it when its integer part is.
should_prune(tr, info_key, action) ==
    IF tr.prune_threshold = None \/ tr.iteration <= tr.prune_warm_up THEN {FALSE}
    ELSE LET regrets == Get(tr.regret_sum, info_key)
         IN  IF action \in DOMAIN regrets
                 /\ regrets[action][1] \div regrets[action][2] < tr.prune_threshold[1]
             THEN BOOLEAN
             ELSE {FALSE}

\* np.random.choice(num_actions, p=strategy): an action of positive
\* probability.  The first seat to act in a hand draws any such action
\* within the bounds of the exploration; a seat that acts later draws the
\* first of them that is not a fold.
Drawn(s, actions, strategy) ==
    LET support == {actions[i] : i \in {j \in 1..Len(actions) : strategy[j][1] > 0}}
        bounded == IF support \cap Sampled(s) # {} THEN support \cap Sampled(s)
                   ELSE support
        first == CHOOSE a \in bounded :
                    /\ a = 0 => bounded = {0}
                    /\ \A b \in bounded \ {0} : a <= b
    IN  IF s.action_history = <<>> THEN bounded ELSE {first}

\* get_payoffs(state)[traverser], in BB
payoff(s, traverser) == Q(get_payoffs(s)[traverser], Unit)

\* a bookkeeping that also creates the regret array of a new key
Mapped_init(tr, info_key, actions) ==
    IF info_key \in DOMAIN tr.action_map THEN tr
    ELSE [tr EXCEPT !.action_map = (info_key :> actions) @@ @,
                    !.regret_sum = (info_key :> Get(@, info_key)) @@ @]

\* self.action_map[info_key] = list(actions) if the key is new
Mapped(tr, info_key, actions) ==
    IF info_key \in DOMAIN tr.action_map THEN tr
    ELSE [tr EXCEPT !.action_map = (info_key :> actions) @@ @]

\* the number of traversals train() is followed for
MaxTraversals == 4

\* a pruning threshold, in BB, above every regret of a hand of 20 BB stacks
\* within the traversals followed
PruneAlways == 1000

\* the locals of train(num_iterations) called at iteration start
TrainCall(start, num_iterations) ==
    Loaded([num_iterations |-> num_iterations, start |-> start, end |-> start + num_iterations])

\* train(MaxTraversals) enters its first iteration: traverser 0 on a fresh hand.  The
\* trainer was constructed with or without Linear CFR, with prune_warm_up 0
\* and prune_threshold PruneAlways, so that _should_prune draws at random for
\* every action from the first iteration on.
InitTrain ==
    /\ bucketing = NoTables /\ lookup = <<>> /\ disk = None /\ probe = None /\ builder = None
    /\ training = TrainCall(0, MaxTraversals)
    /\ \E linear \in BOOLEAN :
          trainer = [NewTrainer EXCEPT !.iteration = 1, !.use_linear_cfr = linear,
                                       !.prune_threshold = Loaded(PruneAlways),
                                       !.prune_warm_up = 0]
    /\ \E deck \in Decks :
          /\ state = deal_new_hand(deck)
          /\ calls = <<Activation(state, 0)>>

\* terminal node: return the payoff; no legal action: return 0.0
TraverseLeaf ==
    /\ calls # <<>> /\ Top.pc = "enter"
    /\ is_terminal(state) \/ (~is_chance_node(state) /\ get_legal_actions(state) = <<>>)
    /\ calls' = SetTop([Top EXCEPT !.pc = "return",
                           !.node = IF is_terminal(state) THEN "terminal" ELSE "none",
                           !.ret = IF is_terminal(state)
                                   THEN payoff(state, Top.traverser) ELSE QZero])
    /\ UNCHANGED <<state, trainer, bucketing, lookup, training, disk, probe, builder>>

\* chance node: sample_chance, then the recursive call
TraverseChance ==
    /\ calls # <<>> /\ Top.pc = "enter"
    /\ ~is_terminal(state) /\ is_chance_node(state)
    /\ state' = sample_chance(state)
    /\ calls' = Append(SetTop([Top EXCEPT !.pc = "call_chance", !.node = "chance"]),
                       Activation(state', Top.traverser))
    /\ UNCHANGED <<trainer, bucketing, lookup, training, disk, probe, builder>>

\* the traverser's node: read the key and the strategy, start the loop over
\* the legal actions
TraverseOwn ==
    /\ calls # <<>> /\ Top.pc = "enter"
    /\ ~is_terminal(state) /\ ~is_chance_node(state)
    /\ get_legal_actions(state) # <<>>
    /\ get_current_player(state) = Top.traverser
    /\ \E info_key \in get_info_key(bucketing, state, get_current_player(state)) :
          LET actions == get_legal_actions(state)
          IN  /\ trainer' = Mapped(trainer, info_key, actions)
              /\ calls' = SetTop([Top EXCEPT
                            !.pc = "loop", !.node = "decision", !.i = 1,
                            !.actions = actions, !.info_key = info_key,
                            !.strategy = get_strategy(trainer, info_key, actions),
                            !.values = [j \in 1..Len(actions) |-> QZero],
                            !.keep = Sampled(state)])
    /\ UNCHANGED <<state, bucketing, lookup, training, disk, probe, builder>>

\* an opponent's node: read the key and the strategy, sample one action,
\* apply it, recurse
TraverseOpponent ==
    /\ calls # <<>> /\ Top.pc = "enter"
    /\ ~is_terminal(state) /\ ~is_chance_node(state)
    /\ get_legal_actions(state) # <<>>
    /\ get_current_player(state) # Top.traverser
    /\ \E info_key \in get_info_key(bucketing, state, get_current_player(state)) :
          LET actions == get_legal_actions(state)
              strategy == get_strategy(trainer, info_key, actions)
          IN  \E a \in Drawn(state, actions, strategy) :
                /\ state' = apply_action(state, a)
                /\ trainer' = Mapped(trainer, info_key, actions)
                /\ calls' = Append(SetTop([Top EXCEPT
                                      !.pc = "call_opp", !.node = "decision",
                                      !.actions = actions, !.info_key = info_key,
                                      !.strategy = strategy,
                                      !.applied = <<a>>,
                                      !.pushed = Len(state'.undo_stack)]),
                                   Activation(state', Top.traverser))
    /\ UNCHANGED <<bucketing, lookup, training, disk, probe, builder>>

\* the loop skips a pruned action: values[i] = 0.0
LoopPrune ==
    /\ calls # <<>> /\ Top.pc = "loop"
    /\ Top.i <= Len(Top.actions)
    /\ TRUE \in should_prune(trainer, Top.info_key, Top.actions[Top.i])
    /\ Top.actions[Top.i] \notin Top.keep
    /\ calls' = SetTop([Top EXCEPT !.i = @ + 1, !.values[Top.i] = QZero])
    /\ UNCHANGED <<state, trainer, bucketing, lookup, training, disk, probe, builder>>

\* the loop applies the next action and recurses
LoopApply ==
    /\ calls # <<>> /\ Top.pc = "loop"
    /\ Top.i <= Len(Top.actions)
    /\ LET drawn == should_prune(trainer, Top.info_key, Top.actions[Top.i])
       IN  FALSE \in drawn /\ (Top.actions[Top.i] \in Top.keep \/ drawn = {FALSE})
    /\ state' = apply_action(state, Top.actions[Top.i])
    /\ calls' = Append(SetTop([Top EXCEPT !.pc = "call_trav",
                                  !.applied = Append(@, Top.actions[Top.i]),
                                  !.pushed = Len(state'.undo_stack)]),
                       Activation(state', Top.traverser))
    /\ UNCHANGED <<trainer, bucketing, lookup, training, disk, probe, builder>>

\* ev = strategy @ values
expected(strategy, values) ==
    QSum([j \in 1..Len(values) |-> QMul(strategy[j], values[j])])

\* a weight that ignores the iteration
weight_flat(tr) == 1

\* weight = self.iteration if self.use_linear_cfr else 1
weight(tr) == IF tr.use_linear_cfr THEN tr.iteration ELSE 1

\* table[info_key][a] += update[i] * weight for i, a in enumerate(actions),
\* the array being np.zeros(NUM_ACTIONS) when the key is new
Accumulate(table, info_key, actions, update, w) ==
    LET old == Get(table, info_key)
        new == [a \in DOMAIN old |->
                  LET at == {j \in 1..Len(actions) : actions[j] = a}
                  IN  IF at = {} THEN old[a]
                      ELSE QAdd(old[a], QSum([k \in 1..Cardinality(at) |->
                                   LET j == CHOOSE x \in at :
                                              Cardinality({y \in at : y < x}) = k - 1
                                   IN  QMul(update[j], <<w, 1>>)]))]
    IN  (info_key :> new) @@ table

\* the loop is over: regrets and strategy sums are updated, ev is returned
LoopEnd ==
    /\ calls # <<>> /\ Top.pc = "loop"
    /\ Top.i > Len(Top.actions)
    /\ LET ev == expected(Top.strategy, Top.values)
           regret_update == [j \in 1..Len(Top.values) |-> QSub(Top.values[j], ev)]
           w == weight(trainer)
       IN  /\ trainer' = [trainer EXCEPT
                  !.regret_sum = Accumulate(@, Top.info_key, Top.actions, regret_update, w),
                  !.strategy_sum = Accumulate(@, Top.info_key, Top.actions, Top.strategy, w)]
           /\ calls' = SetTop([Top EXCEPT !.pc = "return", !.ret = ev])
    /\ UNCHANGED <<state, bucketing, lookup, training, disk, probe, builder>>

\* a recursive call returns to its caller, which undoes (loop and opponent
\* branch) or returns the value as it is (chance branch)
Return ==
    /\ Len(calls) >= 2 /\ Top.pc = "return"
    /\ LET caller == calls[Len(calls) - 1]
           rest == SubSeq(calls, 1, Len(calls) - 2)
       IN  CASE caller.pc = "call_trav" ->
                  /\ state' = undo_action(state)
                  /\ calls' = Append(rest, [caller EXCEPT !.pc = "loop", !.i = @ + 1,
                                               !.values[caller.i] = Top.ret])
             [] caller.pc = "call_opp" ->
                  /\ state' = undo_action(state)
                  /\ calls' = Append(rest, [caller EXCEPT !.pc = "return", !.ret = Top.ret])
             [] OTHER ->
                  /\ state' = state
                  /\ calls' = Append(rest, [caller EXCEPT !.pc = "return", !.ret = Top.ret])
    /\ UNCHANGED <<trainer, bucketing, lookup, training, disk, probe, builder>>


\* train(): the traversal is over; the next traverser, or the next iteration,
\* gets a fresh hand.  The shuffles drawn are these: every second deal draws
\* the next shuffle of Decks, the deals between draw the shuffle of the deal
\* before once more.
TrainNext ==
    /\ Len(calls) = 1 /\ Top.pc = "return"
    /\ LET last == Top.traverser = NUM_PLAYERS - 1
           done == (trainer.iteration - 1) * NUM_PLAYERS + Top.traverser + 1
       IN  /\ done < MaxTraversals
           /\ last => trainer.iteration < training[1].end
           /\ trainer' = [trainer EXCEPT !.iteration = IF last THEN @ + 1 ELSE @]
           /\ state' = deal_new_hand(IF done % 2 = 1
                                     THEN (state.deck % Cardinality(Decks)) + 1
                                     ELSE state.deck)
           /\ calls' = <<Activation(state', IF last THEN 0 ELSE Top.traverser + 1)>>
    /\ UNCHANGED <<bucketing, lookup, training, disk, probe, builder>>

Traverse ==
    \/ TraverseLeaf \/ TraverseChance \/ TraverseOwn \/ TraverseOpponent
    \/ LoopPrune \/ LoopApply \/ LoopEnd \/ Return \/ TrainNext

\* CFRTrainer.train on a trainer as constructed
SpecTrain == InitTrain /\ [][Traverse]_vars


(***************************************************************************)
(* Properties of the engine and of the traversal                           *)
(***************************************************************************)
ActiveCount(s) == Cardinality({q \in Players : s.active[q]})

Total(s) == SumSeats(s.stacks) + s.pot

\* C1: in every reachable state, terminal states included, sum(stacks) + pot
\* is 3 x 20 BB and pot is the sum of the players' contributions
C1_Conservation ==
    /\ Total(state) = NUM_PLAYERS * STARTING_STACK_BB
    /\ state.pot = SumSeats([p \in Players |-> STARTING_STACK_BB - state.stacks[p]])

C3_ApplyUndo ==
    \A a \in Range(get_legal_actions(state)) :
        undo_action(apply_action(state, a)) = state

\* C37: when an apply_action at a decision node closes the betting street
\* (chance_pending set, current_player -1), undo_action gives a decision node
\* again: no chance pending, the actor to move, the same legal actions
C37_UndoReopensStreet ==
    (~is_terminal(state) /\ ~is_chance_node(state)) =>
        \A a \in Range(get_legal_actions(state)) :
            LET s3 == apply_action(state, a)
                undone == undo_action(s3)
            IN  (s3.chance_pending /\ s3.current_player = -1) =>
                    /\ ~undone.chance_pending
                    /\ ~is_chance_node(undone)
                    /\ get_current_player(undone) = get_current_player(state)
                    /\ get_legal_actions(undone) = get_legal_actions(state)

\* C38: when an apply_action at a decision node runs out the board and
\* resolves the hand, undo_action restores board, round_idx and deck_idx as
\* well as stacks, pot and done
C38_UndoRunOut ==
    (~is_terminal(state) /\ ~is_chance_node(state)) =>
        \A a \in Range(get_legal_actions(state)) :
            LET s3 == apply_action(state, a)
                undone == undo_action(s3)
            IN  (s3.done /\ Len(s3.board) > Len(state.board)) =>
                    /\ undone.board = state.board
                    /\ undone.round_idx = state.round_idx
                    /\ undone.deck_idx = state.deck_idx
                    /\ undone.stacks = state.stacks
                    /\ undone.pot = state.pot
                    /\ undone.done = state.done

\* C4: sample_chance at a chance node followed by undo_action restores every field
C4_ChanceUndo ==
    is_chance_node(state) => undo_action(sample_chance(state)) = state

\* C8: at a node that is neither terminal nor a chance node the current player
\* is a seat that is active and not all-in, and the legal actions are a
\* non-empty sorted list of indices in 0..9
C8_DecisionNode ==
    (~is_terminal(state) /\ ~is_chance_node(state)) =>
        LET legal == get_legal_actions(state)
        IN  /\ state.current_player \in Players
            /\ state.active[state.current_player]
            /\ ~state.all_in[state.current_player]
            /\ legal # <<>>
            /\ \A i \in 1..Len(legal) : legal[i] \in 0..(NUM_ACTIONS - 1)
            /\ \A i \in 1..(Len(legal) - 1) : legal[i] < legal[i + 1]

\* a postflop decision node reached past a folded or all-in seat
C8_Witness ==
    /\ ~is_terminal(state) /\ ~is_chance_node(state)
    /\ state.round_idx >= 1
    /\ \E p \in Players : ~state.active[p] \/ state.all_in[p]
    /\ Len(get_legal_actions(state)) >= 3

\* C5: a cfr_traverse entered at a decision node returns with the engine
\* state it was entered with, undo stack included; each undo_action of the
\* trainer pops the record pushed by the apply_action it is paired with; the
\* root call returns with an empty undo stack
C5_TraverseRestores ==
    (calls # <<>> /\ Top.pc = "return") =>
        /\ Top.node = "decision" =>
              /\ [state EXCEPT !.undo_stack = <<>>] = Top.entry
              /\ Len(state.undo_stack) = Top.depth
        /\ (Len(calls) >= 2 /\ calls[Len(calls) - 1].pc \in {"call_trav", "call_opp"})
              => Len(state.undo_stack) = calls[Len(calls) - 1].pushed
        /\ Len(calls) = 1 => state.undo_stack = <<>>

(***************************************************************************)
(* Who really acted: in forward play undo_stack[i] is the record pushed    *)
(* for action_history[i], and an action record names the seat that acted.  *)
(***************************************************************************)
StreetStart(s) ==
    LET deals == {i \in 1..Len(s.action_history) : s.action_history[i] = DEAL}
    IN  IF deals = {} THEN 1 ELSE MaxOf(deals) + 1

StreetPositions(s) == StreetStart(s)..Len(s.action_history)

ActorAt(s, i) == s.undo_stack[i].current_player

BetsAfter(s, i) == IF i < Len(s.undo_stack) THEN s.undo_stack[i + 1].bets ELSE s.bets

\* the action at position i put the actor's street total above every bet so far
IsRaiseAt(s, i) ==
    BetsAfter(s, i)[ActorAt(s, i)] > MaxSeat(s.undo_stack[i].bets)

LatestRaise(s) ==
    LET rs == {i \in StreetPositions(s) : IsRaiseAt(s, i)}
    IN  IF rs = {} THEN 0 ELSE MaxOf(rs)

\* every seat that can still act, the latest raiser aside, has acted after
\* the latest raise of the street
RaiseAnswered(s) ==
    LatestRaise(s) = 0 \/
    \A p \in CanAct(s) \ {ActorAt(s, LatestRaise(s))} :
        \E i \in StreetPositions(s) : i > LatestRaise(s) /\ ActorAt(s, i) = p

\* C6: a street is closed through round_complete only if every active
\* non-all-in player other than the latest raiser has acted after the latest
\* raise of the street
C6_CloseAnswersRaise ==
    \A a \in Range(get_legal_actions(state)) :
        LET s2 == apply_chips(state, a)
            s3 == apply_action(state, a)
        IN  (ActiveCount(s2) >= 2 /\ Cardinality(CanAct(s2)) >= 2
               /\ (s3.chance_pending \/ s3.done))
            => RaiseAnswered(s2)

\* C33: in forward play every action of the current street is attributed by
\* the engine (order[idx % 3]) to the seat that made it, and a seat acts a
\* second time on a street only if another seat raised in between (in every
\* state of a hand that is not over)
C33_ActsOncePerStreet ==
    ~state.done =>
    /\ \A i \in StreetPositions(state) :
          OrderSeat(state, i - StreetStart(state)) = ActorAt(state, i)
    /\ \A i, j \in StreetPositions(state) :
          (i < j /\ ActorAt(state, i) = ActorAt(state, j)) =>
              \E k \in (i + 1)..(j - 1) :
                  IsRaiseAt(state, k) /\ ActorAt(state, k) # ActorAt(state, i)

DecisionNode(s) == ~is_terminal(s) /\ ~is_chance_node(s)

\* legal play of a hand dealt from the first deck by a caller that goes on
\* until the hand is over: it calls
\* sample_chance while the state is a chance node and apply_action while it
\* is a decision node.  The fairness of the apply_action steps is weak
\* fairness written out, with the caller's own test (the node is a decision
\* node) as the enabling condition.
SpecPlayFair ==
    /\ Init /\ [][Play]_vars
    /\ WF_vars(Chance)
    /\ ([]<>(~DecisionNode(state)) \/ []<><<Apply>>_vars)

\* the checks, calls and folds made on the current street since its latest
\* raise, or since its start if nobody has raised
SinceRaise(s) == Cardinality({i \in StreetPositions(s) : i > LatestRaise(s)})

\* the least a bet or raise that does not put the actor all-in adds to the
\* highest bet of the street: the smallest pot fraction of the blinds
MinRaiseStep == (33 * (SMALL_BLIND_BB + BIG_BLIND_BB)) \div 100

C7_NextPlayer ==
    \A a \in Range(get_legal_actions(state)) :
        LET s2 == apply_chips(state, a)
            s3 == apply_action(state, a)
            p == state.current_player
            next == CHOOSE k \in 1..NUM_PLAYERS :
                       /\ (p + k) % NUM_PLAYERS \in CanAct(s2)
                       /\ \A j \in 1..(k - 1) : (p + j) % NUM_PLAYERS \notin CanAct(s2)
        IN  (ActiveCount(s2) >= 2 /\ ~is_round_complete(s2))
            => /\ ~s3.done
               /\ s3.board = state.board
               /\ CanAct(s2) # {}
               /\ s3.current_player = (p + next) % NUM_PLAYERS

\* C9: apply_action with an index that is not legal leaves the state unchanged
C9_IllegalRejected ==
    \A a \in (0..(NUM_ACTIONS - 1)) \ Range(get_legal_actions(state)) :
        LET s3 == apply_action(state, a)
        IN  /\ s3.stacks = state.stacks
            /\ s3.pot = state.pot
            /\ s3.bets = state.bets
            /\ s3.active = state.active
            /\ s3.action_history = state.action_history
            /\ s3.undo_stack = state.undo_stack

\* C10: an action that puts the actor's street total above the previous
\* max(bets) makes the actor the last raiser with last_raise_amount =
\* new_total - previous max(bets), and the next player's minimum raise total
\* is max(bets) plus that amount
C10_RaiseAmount ==
    \A a \in Range(get_legal_actions(state)) :
        LET s2 == apply_chips(state, a)
            s3 == apply_action(state, a)
            p == state.current_player
            prev_max == MaxSeat(state.bets)
            new_total == s2.bets[p]
        IN  new_total > prev_max
            => /\ s2.last_raiser = p
               /\ s2.last_raise_amount = new_total - prev_max
               /\ (~s3.done /\ ~s3.chance_pending)
                     => min_raise_total(s3) = MaxSeat(s3.bets) + (new_total - prev_max)

(***************************************************************************)
(* The legal action set                                                    *)
(***************************************************************************)

\* the street total of the current player after apply_action(s, a)
TotalAfter(s, a) == apply_chips(s, a).bets[PyIdx(s.current_player)]

\* C11: a legal raise of index 2..8 leaves bets[actor] = m + r with m the
\* max(bets) before, r >= last_raise_amount before, and takes no more chips
\* than the actor's stack
C11_LegalRaise ==
    DecisionNode(state) =>
        \A a \in Range(get_legal_actions(state)) \cap (2..8) :
            LET p == state.current_player
                m == MaxSeat(state.bets)
                s2 == apply_chips(state, a)
            IN  /\ s2.bets[p] - m >= state.last_raise_amount
                /\ s2.stacks[p] >= 0
                /\ state.stacks[p] - s2.stacks[p] = s2.bets[p] - state.bets[p]

\* a sized raise is legal over a bet that is faced
C11_Witness ==
    /\ DecisionNode(state)
    /\ to_call(state) > 0
    /\ Raises(state) >= 1
    /\ \E a \in Range(get_legal_actions(state)) : a \in 2..8

\* C12: fold is legal iff to_call > 0; index 1 is legal iff to_call = 0 or
\* stack >= to_call; with stack < to_call the legal set is exactly {0, 9}
C12_FoldCall ==
    DecisionNode(state) =>
        LET legal == Range(get_legal_actions(state))
            tc == to_call(state)
            stack == state.stacks[state.current_player]
        IN  /\ 0 \in legal <=> tc > 0
            /\ 1 \in legal <=> (tc = 0 \/ stack >= tc)
            /\ stack < tc => legal = {0, 9}

\* a player facing more than the stack
C12_Witness ==
    /\ DecisionNode(state)
    /\ state.stacks[state.current_player] < to_call(state)
    /\ Range(get_legal_actions(state)) = {0, 9}

\* C13: no two legal actions other than fold give the actor the same street
\* total
C13_DistinctTotals ==
    DecisionNode(state) =>
        \A a, b \in Range(get_legal_actions(state)) \ {0} :
            a # b => TotalAfter(state, a) # TotalAfter(state, b)

\* C14: the info key of a seat is the same on two states that differ only in
\* the other seats' hole cards and in the deck: it depends on nothing but the
\* seat's hole cards, the board, the round and the action history.
C14_KeyFromOwnView ==
    lookup # <<>> => lookup.key = lookup.other

\* C15: get_bucket and get_info_key are functions of their arguments, with
\* tables loaded and without: two calls on one state return one key, whose
\* bucket lies in [0, B_round).
C15_KeyIsFunction ==
    lookup # <<>> =>
        /\ lookup.key = lookup.again
        /\ lookup.key[1] \in 0..(BucketsOf(state.round_idx) - 1)

\* the activations at a decision node that have not updated the tables: the
\* strategy they hold was read from the regrets of their key as they are now
Reading == {n \in 1..Len(calls) : calls[n].node = "decision" /\ calls[n].pc # "return"}

\* max(regret_sum[k][a], 0)
PositiveRegret(k, a) ==
    LET r == Get(trainer.regret_sum, k)[a]
    IN  IF r[1] > 0 THEN r ELSE QZero

\* Z: the sum of the positive regrets of key k over A
PositiveSum(k, A) == QSum([i \in 1..Len(A) |-> PositiveRegret(k, A[i])])

\* C16: for every key, seen or unseen, and every non-empty legal set A the
\* strategy get_strategy returns has |A| entries, none negative, that sum to
\* 1: entry a is max(regret_sum[k][a], 0) / Z when Z > 0 and 1/|A| otherwise.
C16_StrategyIsDistribution ==
    \A n \in Reading :
        LET A == calls[n].actions
            sigma == calls[n].strategy
            k == calls[n].info_key
            Z == PositiveSum(k, A)
        IN  /\ A # <<>>
            /\ Len(sigma) = Len(A)
            /\ \A i \in 1..Len(A) : sigma[i][1] >= 0 /\ sigma[i][2] > 0
            /\ QSum(sigma) = Q(1, 1)
            /\ \A i \in 1..Len(A) :
                  sigma[i] = IF Z[1] > 0 THEN QDiv(PositiveRegret(k, A[i]), Z)
                             ELSE Q(1, Len(A))

\* a strategy read for a key with regrets, some positive and some not, whose
\* positions differ from the action indices, while a strategy read for an
\* unseen key is held too
C16_Witness ==
    \E n, m \in Reading :
        /\ calls[n].info_key \in DOMAIN trainer.regret_sum
        /\ PositiveSum(calls[n].info_key, calls[n].actions)[1] > 0
        /\ \E i \in 1..Len(calls[n].actions) : calls[n].strategy[i] = QZero
        /\ calls[n].actions[1] # 0
        /\ calls[m].info_key \notin DOMAIN trainer.regret_sum

\* the traverser's loop is over and the update comes next
AtLoopEnd == calls # <<>> /\ Top.pc = "loop" /\ Top.i > Len(Top.actions)

\* w: t under Linear CFR, 1 otherwise
IterationWeight == IF trainer.use_linear_cfr THEN trainer.iteration ELSE 1

Mass(table, k) == QSum([i \in 1..NUM_ACTIONS |-> Get(table, k)[i - 1]])

\* x <= y
QLeq(x, y) == \A a \in {x}, b \in {y} : QSub(b, a)[1] >= 0

\* C34: the regret update at a traverser-owned node does not increase the
\* regret_sum of an action the loop skipped by pruning in that visit
C34_PrunedRegretNotRaised ==
    [][AtLoopEnd =>
         \A j \in 1..Len(Top.actions) :
             Top.actions[j] \notin Range(Top.applied) =>
                 QLeq(trainer'.regret_sum[Top.info_key][Top.actions[j]],
                      Get(trainer.regret_sum, Top.info_key)[Top.actions[j]])
    ]_vars

\* a decision node of the traverser has just been entered
AtOwnNode ==
    /\ calls # <<>> /\ Top.pc = "enter"
    /\ ~is_terminal(state) /\ ~is_chance_node(state)
    /\ get_current_player(state) = Top.traverser

\* C18: for every key k the sum over a of strategy_sum[k][a] is >= 0 and
\* never decreases during training, and each traverser visit to k increases
\* it by exactly the iteration weight w.  A visit is a call of cfr_traverse on
\* a decision node of the traverser; it has legal actions, so that it runs
\* the loop and ends with the update.
C18_StrategyMass ==
    [][/\ \A k \in DOMAIN trainer.strategy_sum :
             /\ Mass(trainer.strategy_sum, k)[1] >= 0
             /\ k \in DOMAIN trainer'.strategy_sum
             /\ QLeq(Mass(trainer.strategy_sum, k), Mass(trainer'.strategy_sum, k))
       /\ \A k \in DOMAIN trainer'.strategy_sum : Mass(trainer'.strategy_sum, k)[1] >= 0
       /\ AtOwnNode => get_legal_actions(state) # <<>>
       /\ AtLoopEnd =>
             Mass(trainer'.strategy_sum, Top.info_key) =
                QAdd(Mass(trainer.strategy_sum, Top.info_key), <<IterationWeight, 1>>)
    ]_vars

\* a second traverser visit to a key, on iteration 2 under Linear CFR, has
\* brought its sum from 1 to 3
C18_Witness ==
    /\ calls # <<>> /\ Top.pc = "return" /\ Top.values # <<>>
    /\ trainer.use_linear_cfr /\ trainer.iteration = 2
    /\ Mass(trainer.strategy_sum, Top.info_key) = Q(3, 1)

\* C19: cfr_traverse writes regret_sum and strategy_sum only at decision
\* nodes where the current player is the traverser, and only for the key of
\* that node; at opponent, chance and terminal nodes both tables are left
\* unchanged.
C19_WritesAtOwnNode ==
    [][/\ ~AtLoopEnd => /\ trainer'.regret_sum = trainer.regret_sum
                        /\ trainer'.strategy_sum = trainer.strategy_sum
       /\ AtLoopEnd =>
             /\ Top.node = "decision"
             /\ ~is_terminal(Top.entry) /\ ~is_chance_node(Top.entry)
             /\ get_current_player(Top.entry) = Top.traverser
             /\ Top.info_key \in get_info_key(bucketing, Top.entry, Top.traverser)
             /\ DOMAIN trainer'.regret_sum = DOMAIN trainer.regret_sum \cup {Top.info_key}
             /\ DOMAIN trainer'.strategy_sum = DOMAIN trainer.strategy_sum \cup {Top.info_key}
             /\ \A k \in DOMAIN trainer.regret_sum \ {Top.info_key} :
                   trainer'.regret_sum[k] = trainer.regret_sum[k]
             /\ \A k \in DOMAIN trainer.strategy_sum \ {Top.info_key} :
                   trainer'.strategy_sum[k] = trainer.strategy_sum[k]
    ]_vars

\* the tables hold the keys of traverser nodes while opponent, chance and
\* terminal nodes have returned: the activation on top returns from an
\* opponent node whose key, read there, is in neither table
C19_Witness ==
    /\ Len(calls) >= 2 /\ Top.pc = "return"
    /\ Top.node = "decision" /\ Top.values = <<>>
    /\ Top.info_key \in DOMAIN trainer.action_map
    /\ Top.info_key \notin DOMAIN trainer.regret_sum
    /\ Top.info_key \notin DOMAIN trainer.strategy_sum
    /\ trainer.regret_sum # <<>> /\ trainer.strategy_sum # <<>>

\* a state without its undo records
Bare(s) == [s EXCEPT !.undo_stack = <<>>]

\* the traverser's node calls[n]: the applied actions are the unpruned ones
\* behind the loop position, once each and in order; each is applied to the
\* node and explored from the state it gives
OwnExplores(n) ==
    LET c == calls[n]
        unpruned(last) == SelectSeq([j \in 1..last |-> c.actions[j]],
                                    LAMBDA a : a \in c.keep)
    IN  /\ c.applied = unpruned(IF c.pc = "return" THEN Len(c.actions)
                                ELSE IF c.pc = "call_trav" THEN c.i
                                ELSE c.i - 1)
        /\ (n = Len(calls) /\ c.pc = "loop") => Bare(state) = c.entry
        /\ c.pc = "call_trav" =>
              calls[n + 1].entry = Bare(apply_action(c.entry, c.actions[c.i]))

\* another seat's node calls[n]: one legal action of positive probability in
\* the regret-matched strategy is applied and explored
OtherSamples(n) ==
    LET c == calls[n]
    IN  /\ Len(c.applied) = 1
        /\ \E j \in 1..Len(c.actions) :
              c.actions[j] = c.applied[1] /\ c.strategy[j][1] > 0
        /\ c.strategy = get_strategy(trainer, c.info_key, c.actions)
        /\ c.pc = "call_opp" =>
              calls[n + 1].entry = Bare(apply_action(c.entry, c.applied[1]))

\* the chance node calls[n]: one outcome is sampled and explored
ChanceSamples(n) ==
    calls[n].pc = "call_chance" =>
        calls[n + 1].entry = Bare(sample_chance(calls[n].entry))

\* C20: within one call of cfr_traverse, at a node owned by the traverser
\* every legal action that is not pruned is applied and explored exactly once
\* from that node; at a node owned by another seat exactly one legal action,
\* drawn from the regret-matched strategy, is applied; at a chance node
\* exactly one outcome is sampled.
C20_ExternalSampling ==
    \A n \in 1..Len(calls) :
        /\ (calls[n].node = "decision" /\ calls[n].values # <<>>) => OwnExplores(n)
        /\ (calls[n].node = "decision" /\ calls[n].values = <<>>) => OtherSamples(n)
        /\ calls[n].node = "chance" => ChanceSamples(n)

\* cfr_traverse has been entered on a node that is neither terminal nor a
\* chance node and has no legal action: the 'return 0.0' branch comes next
AtEmptyNode ==
    /\ calls # <<>> /\ Top.pc = "enter"
    /\ ~is_terminal(state) /\ ~is_chance_node(state)
    /\ get_legal_actions(state) = <<>>

\* the traverser's loop calls apply_action next
AtLoopApply ==
    /\ calls # <<>> /\ Top.pc = "loop" /\ Top.i <= Len(Top.actions)
    /\ LET drawn == should_prune(trainer, Top.info_key, Top.actions[Top.i])
       IN  FALSE \in drawn /\ (Top.actions[Top.i] \in Top.keep \/ drawn = {FALSE})

\* C21: during training on the NLHE engine cfr_traverse never reaches a node
\* that is neither terminal nor a chance node and has no legal action (the
\* 'return 0.0' branch is never taken), and it never calls apply_action on a
\* state whose current_player is -1 or whose chance_pending is true.
C21_TraverseOnDecisionNodes ==
    /\ ~AtEmptyNode
    /\ AtLoopApply => state.current_player # -1 /\ ~state.chance_pending


(***************************************************************************)
(* kuhn3p.py: the 3-player Kuhn engine.  Under SpecKuhn the variable state *)
(* holds a KuhnState: cards, history, active, pot, current_player,         *)
(* bets_this_round.  The names that the NLHE engine also defines carry the *)
(* prefix kuhn_.                                                           *)
(***************************************************************************)
KUHN_DECK == 0 .. 3

KUHN_ACTIONS == <<"pass", "bet">>

\* KuhnState.__init__ followed by the assignment of the cards
KuhnState(cards) ==
    [ cards |-> cards, history |-> <<>>,
      active |-> [p \in Players |-> TRUE], pot |-> [p \in Players |-> 1],
      current_player |-> 0, bets_this_round |-> 0 ]

\* the hands np.random.choice(DECK, size=3, replace=False) can draw
KuhnDeals ==
    {c \in [Players -> KUHN_DECK] : \A p, q \in Players : p # q => c[p] # c[q]}

kuhn_get_legal_actions(s) == KUHN_ACTIONS

\* "bet" in h
HasBet(h) == \E i \in 1..Len(h) : h[i] = "bet"

\* h.index("bet"), an offset from 0
BetIdx(h) == (CHOOSE i \in 1..Len(h) : h[i] = "bet" /\ \A j \in 1..(i - 1) : h[j] # "bet") - 1

kuhn_is_terminal(s) ==
    LET h == s.history
        n == Len(h)
    IN  IF n = 0 THEN FALSE
        ELSE IF h = <<"pass", "pass", "pass">> THEN TRUE
        ELSE IF HasBet(h) THEN n - BetIdx(h) - 1 >= 2
        ELSE FALSE

\* max(seats, key=lambda p: cards[p]): the first seat of the highest card
HighCard(cards, seats) ==
    CHOOSE p \in seats :
        /\ \A q \in seats : cards[q] <= cards[p]
        /\ \A q \in seats : cards[q] = cards[p] => p <= q

\* get_payoffs with the winner drawn from all three seats after a bet
kuhn_get_payoffs_all(s) ==
    LET h == s.history
    IN  IF h = <<"pass", "pass", "pass">>
        THEN [p \in Players |-> IF p = HighCard(s.cards, Players) THEN 2 ELSE -1]
        ELSE LET bettor == BetIdx(h)
                 after == Len(h) - bettor - 1
                 callers == {bettor} \cup
                            {(bettor + 1 + i) % 3 : i \in {j \in 0..(after - 1) : h[bettor + 2 + j] = "bet"}}
                 pot_contributions == [p \in Players |-> IF p \in callers THEN 2 ELSE 1]
                 total_pot == SumSeats(pot_contributions)
                 winner == HighCard(s.cards, Players)
             IN  [p \in Players |-> IF p = winner THEN total_pot - pot_contributions[p]
                                    ELSE 0 - pot_contributions[p]]

kuhn_get_payoffs(s) ==
    LET h == s.history
    IN  IF h = <<"pass", "pass", "pass">>
        THEN [p \in Players |-> IF p = HighCard(s.cards, Players) THEN 2 ELSE -1]
        ELSE LET bettor == BetIdx(h)
                 after == Len(h) - bettor - 1
                 callers == {bettor} \cup
                            {(bettor + 1 + i) % 3 : i \in {j \in 0..(after - 1) : h[bettor + 2 + j] = "bet"}}
                 pot_contributions == [p \in Players |-> IF p \in callers THEN 2 ELSE 1]
                 total_pot == SumSeats(pot_contributions)
                 winner == HighCard(s.cards, callers)
             IN  [p \in Players |-> IF p = winner THEN total_pot - pot_contributions[p]
                                    ELSE 0 - pot_contributions[p]]

\* apply_action: a copy with the action appended and current_player set;
\* active, pot and bets_this_round keep the values of the constructor
kuhn_apply_action(s, action) ==
    LET h == Append(s.history, action)
        sequential == Len(h) % 3
    IN  [s EXCEPT !.history = h,
                  !.current_player =
                      IF HasBet(h) /\ Len(h) > BetIdx(h) + 1
                      THEN (BetIdx(h) + (Len(h) - BetIdx(h) - 1)) % 3
                      ELSE sequential]

kuhn_get_current_player(s) == s.current_player

\* get_info_key: the card of the seat asked for and the history
kuhn_get_info_key(s, player) == <<s.cards[player], s.history>>

\* a hand of Kuhn has been dealt
InitKuhn == Idle /\ \E cards \in KuhnDeals : state = KuhnState(cards)

\* a caller plays the hand on: the state apply_action returns becomes the
\* state of the hand
KuhnApply ==
    /\ calls = <<>> /\ ~kuhn_is_terminal(state)
    /\ \E i \in 1..Len(kuhn_get_legal_actions(state)) :
          state' = kuhn_apply_action(state, kuhn_get_legal_actions(state)[i])
    /\ UNCHANGED frame

\* CFRTrainer.cfr_traverse(state, traverser) on a state of the hand: the
\* first statement reads state.undo_stack, in the try block and again in its
\* except handler; a KuhnState has no such attribute, so the AttributeError
\* of the handler leaves cfr_traverse before the terminal test
KuhnTraverse ==
    /\ calls = <<>>
    /\ "undo_stack" \notin DOMAIN state
    /\ \E traverser \in Players :
          calls' = <<[pc |-> "raised", traverser |-> traverser,
                      error |-> "AttributeError"]>>
    /\ UNCHANGED <<state, trainer, bucketing, lookup, training, disk, probe, builder>>

KuhnNext == KuhnApply \/ KuhnTraverse

\* the Kuhn engine played by a caller, and the trainer called on its states
SpecKuhn == InitKuhn /\ [][KuhnNext]_vars

\* C22: with the Kuhn engine, which has no undo_action and whose apply_action
\* returns a fresh state, no call of cfr_traverse is left by an exception:
\* every traversal goes on from successor to successor to a terminal node
\* and returns
C22_KuhnTraversal == calls # <<>> => Top.pc # "raised"


\* the seat that acts at position i of a Kuhn history, positions from 1: the
\* seats act in turn from seat 0
KuhnActor(i) == (i - 1) % NUM_PLAYERS

\* the seat get_payoffs attributes the next action of a history to: the seat
\* of the next position before any bet, (bettor + 1 + i) % 3 for the i-th
\* response to the bet
KuhnCharged(h) ==
    IF HasBet(h) THEN (BetIdx(h) + 1 + (Len(h) - BetIdx(h) - 1)) % 3
    ELSE Len(h) % 3

\* C35: at every non-terminal history of 3-player Kuhn get_current_player is
\* the seat get_payoffs attributes the next action to, and the info key of
\* the node is built from that seat's card
C35_KuhnTurn ==
    ~kuhn_is_terminal(state) =>
        /\ kuhn_get_current_player(state) = KuhnCharged(state.history)
        /\ KuhnCharged(state.history) = KuhnActor(Len(state.history) + 1)
        /\ kuhn_get_info_key(state, kuhn_get_current_player(state))
              = <<state.cards[KuhnCharged(state.history)], state.history>>

\* seat p bet or called in the hand
BetOrCalled(s, p) == \E i \in 1..Len(s.history) : s.history[i] = "bet" /\ KuhnActor(i) = p

\* what seat p put in: the ante, and one more if it bet or called
KuhnPaid(s, p) == IF BetOrCalled(s, p) THEN 2 ELSE 1

\* seat p did not fold: nobody bet, or p bet or called
KuhnStays(s, p) == ~HasBet(s.history) \/ BetOrCalled(s, p)

\* the values of three seats as the array the engine keeps
Seats3(a, b, c) == [p \in Players |-> <<a, b, c>>[p + 1]]

\* C27: at every terminal history of 3-player Kuhn get_payoffs charges each
\* seat the ante of 1 plus 1 more if it bet or called, gives the whole pot to
\* the highest card among the seats that did not fold, and the payoffs sum
\* to zero; pass-pass-pass with cards [2,0,1] gives [+2,-1,-1], bet-pass-pass
\* gives [+2,-1,-1], pass-bet-bet-pass with cards [0,3,2] gives [-1,+3,-2]
C27_KuhnPayoffs ==
    kuhn_is_terminal(state) =>
        LET payoffs == kuhn_get_payoffs(state)
            stays == {p \in Players : KuhnStays(state, p)}
            pot == SumSeats([p \in Players |-> KuhnPaid(state, p)])
        IN  /\ \E w \in stays :
                  /\ \A q \in stays : state.cards[q] <= state.cards[w]
                  /\ payoffs[w] = pot - KuhnPaid(state, w)
                  /\ \A q \in Players \ {w} : payoffs[q] = 0 - KuhnPaid(state, q)
            /\ SumSeats(payoffs) = 0
            /\ state.history = <<"pass", "pass", "pass">> /\ state.cards = Seats3(2, 0, 1)
                  => payoffs = Seats3(2, -1, -1)
            /\ state.history = <<"bet", "pass", "pass">> => payoffs = Seats3(2, -1, -1)
            /\ state.history = <<"pass", "bet", "bet", "pass">> /\ state.cards = Seats3(0, 3, 2)
                  => payoffs = Seats3(-1, 3, -2)

\* a terminal history in which the holder of the highest card folded to a
\* bet that was called
C27_Witness ==
    /\ kuhn_is_terminal(state)
    /\ state.history = <<"pass", "bet", "bet", "pass">>
    /\ state.cards = Seats3(3, 1, 2)
    /\ kuhn_get_payoffs(state) = Seats3(-1, -2, 3)


\* a fresh deal on which P0 has gone all-in: P1 is to act
FirstAllIn(s) ==
    /\ s.action_history = <<9>> /\ s.round_idx = 0
    /\ s.stacks[0] = 0 /\ s.current_player = 1

\* the showdown of s gave seat w, a holder of the best hand, the pot of 60 BB
HoldsAll(s, w) ==
    /\ s.stacks[w] = NUM_PLAYERS * STARTING_STACK_BB
    /\ \A q \in Players : ~TupleGreater(showdown_hand(s, q), showdown_hand(s, w))

\* C24: from a fresh deal, after P0 and then P1 commit their full 20 BB, P2
\* is given a decision and can commit 20 BB as well; after that the board has
\* five cards, the stacks sum to 60 BB and the best hand holds the pot of 60
C24_ThreeWayAllIn ==
    FirstAllIn(state) =>
        \A a \in Range(get_legal_actions(state)) :
            apply_chips(state, a).stacks[1] = 0 =>
                LET s3 == apply_action(state, a)
                IN  /\ DecisionNode(s3) /\ s3.current_player = 2
                    /\ \E b \in Range(get_legal_actions(s3)) :
                          LET s4 == apply_action(s3, b)
                          IN  /\ apply_chips(s3, b).stacks[2] = 0
                              /\ s4.done /\ Len(s4.board) = 5
                              /\ SumSeats(s4.stacks) = NUM_PLAYERS * STARTING_STACK_BB
                              /\ \E w \in Players : HoldsAll(s4, w)


\* C25: whenever a fold leaves exactly one active player, the hand is terminal
\* after that same apply_action with no community card added, the survivor
\* has been given the whole pot and every other player's payoff is minus its
\* contribution; from a fresh deal P0 folds, P1 folds gives [0, -0.5, +0.5]
C25_FoldEndsHand ==
    /\ DecisionNode(state) =>
          \A a \in Range(get_legal_actions(state)) :
              LET s2 == apply_chips(state, a)
                  s3 == apply_action(state, a)
                  paid == [q \in Players |-> STARTING_STACK_BB - state.stacks[q]]
              IN  (action_index_to_chips(state, a)[1] /\ ActiveCount(s2) = 1) =>
                      /\ is_terminal(s3) /\ s3.done /\ ~s3.chance_pending
                      /\ s3.board = state.board
                      /\ \E w \in Players :
                            /\ s3.active[w]
                            /\ s3.stacks[w] = state.stacks[w] + state.pot
                            /\ get_payoffs(s3)[w] = state.pot - paid[w]
                            /\ \A q \in Players \ {w} : get_payoffs(s3)[q] = 0 - paid[q]
    /\ (state.action_history = <<0, 0>> /\ state.round_idx = 0)
          => get_payoffs(state) = Seats3(0, 0 - SMALL_BLIND_BB, SMALL_BLIND_BB)

\* a hand that a fold on the flop has just ended, and the hand that two folds
\* before the flop have ended
C25_Witness ==
    /\ state.done /\ ActiveCount(state) = 1
    /\ state.action_history[Len(state.action_history)] = 0
    /\ Len(state.board) = 3 \/ state.action_history = <<0, 0>>


\* deal_new_hand has just returned state: nothing has been applied to it
Fresh(s) == s.action_history = <<>> /\ s.undo_stack = <<>>

\* C26: immediately after deal_new_hand stacks = [20, 19.5, 19], bets =
\* [0, 0.5, 1], pot = 1.5, current_player = 0, last_raiser = 2,
\* last_raise_amount = 1, the board is empty, the six hole cards are pairwise
\* distinct and the legal actions of P0 contain Fold, Call and a preflop
\* raise size of total 2 BB or more
C26_FreshDeal ==
    Fresh(state) =>
        /\ state.stacks = Seats3(20 * Unit, 20 * Unit - Unit \div 2, 19 * Unit)
        /\ state.bets = Seats3(0, Unit \div 2, Unit)
        /\ state.pot = Unit + Unit \div 2
        /\ state.current_player = 0 /\ get_current_player(state) = 0
        /\ state.last_raiser = 2 /\ state.last_raise_amount = Unit
        /\ state.board = <<>>
        /\ Cardinality(UNION {Range(state.hole_cards[p]) : p \in Players}) = 2 * NUM_PLAYERS
        /\ LET legal == Range(get_legal_actions(state))
           IN  /\ 0 \in legal /\ 1 \in legal
               /\ \E a \in legal : a \in 2..8 /\ TotalAfter(state, a) >= 2 * Unit

\* a hand just dealt from the second shuffle, P0 holding the raise to 2 BB
C26_Witness ==
    /\ Fresh(state) /\ state.deck = 2
    /\ 2 \in Range(get_legal_actions(state))
    /\ TotalAfter(state, 2) = 2 * Unit


\* apply_action(s, a) ends the hand s in a showdown
Showdown(s, a) ==
    /\ ~s.done
    /\ apply_action(s, a).done /\ ActiveCount(apply_action(s, a)) >= 2

\* what each seat has put in when the showdown of apply_action(s, a) is paid
Contributions(s, a) == [p \in Players |-> STARTING_STACK_BB - apply_chips(s, a).stacks[p]]

\* the action apply_action appended last
Last(history) == history[Len(history)]

\* the pot layer that ends at the contribution of seat q, for the
\* contributions c of seats 0, 1, 2: (level - prev) * (number of seats with
\* level or more); it is counted for the first seat with that contribution
PotLayer(c, q) ==
    IF c[q + 1] <= 0 \/ \E r \in 0..(q - 1) : c[r + 1] = c[q + 1] THEN 0
    ELSE (c[q + 1] - MaxOf({0} \cup {c[r + 1] : r \in {x \in Players : c[x + 1] < c[q + 1]}}))
         * Cardinality({r \in Players : c[r + 1] >= c[q + 1]})

\* stacks after are the stacks before plus the layers, each going whole to
\* a seat that is active and has put in the layer's level or more, or to
\* nobody; and no seat gets more than its share of each contribution
PaidByLayers(before, after, c, layer) ==
    /\ \E to \in [Players -> Players \cup {-1}] :
          /\ \A q \in Players :
                (layer[q + 1] > 0 /\ to[q] # -1) =>
                    after.active[to[q]] /\ c[to[q] + 1] >= c[q + 1]
          /\ \A p \in Players :
                after.stacks[p] = before[p] + (IF to[0] = p THEN layer[1] ELSE 0)
                                            + (IF to[1] = p THEN layer[2] ELSE 0)
                                            + (IF to[2] = p THEN layer[3] ELSE 0)
    /\ \A p \in Players :
          after.stacks[p] <= before[p] + Min(c[1], c[p + 1]) + Min(c[2], c[p + 1])
                                       + Min(c[3], c[p + 1])

\* C28: at showdown each pot layer between consecutive contribution levels
\* prev < level goes to one player who is still active and has put in level
\* or more; so no final stack exceeds the player's uncommitted chips plus the
\* sum over all players q of min(contribution[q], contribution[p])
C28_SidePotLayers ==
    [][(/\ DecisionNode(state) /\ state'.done /\ ActiveCount(state') >= 2
        /\ Len(state'.action_history) = Len(state.action_history) + 1) =>
          \A before \in {apply_chips(state, Last(state'.action_history)).stacks} :
             \A c \in {<<STARTING_STACK_BB - before[0], STARTING_STACK_BB - before[1],
                         STARTING_STACK_BB - before[2]>>} :
                \A layer \in {<<PotLayer(c, 0), PotLayer(c, 1), PotLayer(c, 2)>>} :
                   PaidByLayers(before, state', c, layer)
      ]_vars

\* a showdown is about to be paid in which the best hand has put in less than
\* another player: it gets its uncommitted chips and its share of each
\* contribution, the rest goes to another player
C28_Witness ==
    /\ DecisionNode(state)
    /\ \E a \in Explored(state) :
          /\ Showdown(state, a)
          /\ LET before == apply_chips(state, a).stacks
                 after == apply_action(state, a)
                 c == Contributions(state, a)
             IN  \E p \in Players :
                    /\ after.active[p]
                    /\ \E q \in Players : after.active[q] /\ c[q] > c[p]
                    /\ \A q \in Players \ {p} :
                          after.active[q] =>
                              TupleGreater(showdown_hand(after, p), showdown_hand(after, q))
                    /\ after.stacks[p] =
                          before[p] + SumSeats([q \in Players |-> Min(c[q], c[p])])
                    /\ \E q \in Players \ {p} : after.stacks[q] > before[q]


\* the board length of each street
BoardLen(round_idx) == CASE round_idx = 0 -> 0 [] round_idx = 1 -> 3
                         [] round_idx = 2 -> 4 [] OTHER -> 5

\* C29: in every state reached through deal_new_hand, legal apply_action,
\* sample_chance and undo_action, the states cfr_traverse visits included,
\* len(board) is 0, 3, 4 or 5 and is the length of street round_idx,
\* round_idx <= 3 and deck_idx = 6 + len(board)
C29_BoardMatchesStreet ==
    /\ state.round_idx \in 0..3
    /\ Len(state.board) = BoardLen(state.round_idx)
    /\ state.deck_idx = 2 * NUM_PLAYERS + Len(state.board)

(***************************************************************************)
(* Python floats.  The chips of the engine are Python floats: IEEE 754     *)
(* doubles, every +, - and * rounded to 53 significant bits, to nearest,   *)
(* ties to even.  A float is a sign and a magnitude; the magnitude is a    *)
(* natural number counted in units of 2^-60 BB and written in FLimbs limbs *)
(* of 15 bits, the least significant first.  The magnitudes of the engine  *)
(* stay below 2^7 BB and, where they carry 53 bits, above 2^-7 BB, so each *)
(* double is held exactly.                                                 *)
(***************************************************************************)
FBase == 32768
FLimbBits == 15
FLimbs == 10
FUnitBits == 60
FMantissa == 53

\* the FLimbs limbs of f, limb 1 first, as a tuple
BigLimbs(f) == <<f[1], f[2], f[3], f[4], f[5], f[6], f[7], f[8], f[9], f[10]>>

BigZero == BigLimbs([i \in 1..FLimbs |-> 0])

\* n, below 2^31, as a magnitude in units of 1
BigOfInt(n) ==
    BigLimbs([i \in 1..FLimbs |-> CASE i = 1 -> n % FBase
                                    [] i = 2 -> (n \div FBase) % FBase
                                    [] i = 3 -> n \div (FBase * FBase)
                                    [] OTHER -> 0])

RECURSIVE BigCarry(_, _, _)
BigCarry(a, b, i) == IF i = 0 THEN 0 ELSE (a[i] + b[i] + BigCarry(a, b, i - 1)) \div FBase

BigAdd(a, b) ==
    BigLimbs([i \in 1..FLimbs |-> (a[i] + b[i] + BigCarry(a, b, i - 1)) % FBase])

RECURSIVE BigBorrow(_, _, _)
BigBorrow(a, b, i) ==
    IF i = 0 THEN 0 ELSE IF a[i] - b[i] - BigBorrow(a, b, i - 1) < 0 THEN 1 ELSE 0

\* a - b for a >= b
BigSub(a, b) ==
    BigLimbs([i \in 1..FLimbs |-> (a[i] - b[i] - BigBorrow(a, b, i - 1) + FBase) % FBase])

BigLess(a, b) == \E i \in 1..FLimbs : a[i] < b[i] /\ \A j \in (i + 1)..FLimbs : a[j] = b[j]

RECURSIVE BigMulCarry(_, _, _)
BigMulCarry(a, d, i) == IF i = 0 THEN 0 ELSE (a[i] * d + BigMulCarry(a, d, i - 1)) \div FBase

\* a * d for one limb d
BigMulLimb(a, d) ==
    BigLimbs([i \in 1..FLimbs |-> (a[i] * d + BigMulCarry(a, d, i - 1)) % FBase])

\* a * FBase^k
BigShiftLimbs(a, k) ==
    BigLimbs([i \in 1..FLimbs |-> IF i - k \in 1..FLimbs THEN a[i - k] ELSE 0])

RECURSIVE BigMulFrom(_, _, _)
BigMulFrom(a, b, j) ==
    IF j > FLimbs THEN BigZero
    ELSE BigAdd(BigShiftLimbs(BigMulLimb(a, b[j]), j - 1), BigMulFrom(a, b, j + 1))

BigMul(a, b) == BigMulFrom(a, b, 1)

\* the number of bits of the limb d > 0
LimbBits(d) == CHOOSE n \in 1..FLimbBits : 2^(n - 1) <= d /\ d < 2^n

\* the number of bits of a
BigBits(a) ==
    IF a = BigZero THEN 0
    ELSE LET top == CHOOSE i \in 1..FLimbs : a[i] # 0 /\ \A j \in (i + 1)..FLimbs : a[j] = 0
         IN  (top - 1) * FLimbBits + LimbBits(a[top])

BigLimb(a, i) == IF i \in 1..FLimbs THEN a[i] ELSE 0

\* a \div 2^s
BigShr(a, s) ==
    LET q == s \div FLimbBits
        r == s % FLimbBits
    IN  BigLimbs([i \in 1..FLimbs |->
                     (BigLimb(a, i + q) \div 2^r)
                     + (BigLimb(a, i + q + 1) % 2^r) * 2^(FLimbBits - r)])

\* a * 2^s
BigShl(a, s) ==
    LET q == s \div FLimbBits
        r == s % FLimbBits
    IN  BigLimbs([i \in 1..FLimbs |->
                     (BigLimb(a, i - q) % 2^(FLimbBits - r)) * 2^r
                     + (BigLimb(a, i - q - 1) \div 2^(FLimbBits - r))])

\* the quotient q of a division that left rest, rounded to nearest against
\* half of the divisor, ties to even
BigRoundUp(q, rest, half) ==
    IF BigLess(half, rest) \/ (rest = half /\ q[1] % 2 = 1) THEN BigAdd(q, BigOfInt(1)) ELSE q

\* a \div 2^drop, given its truncated quotient q, rounded to nearest
BigRoundQuotient(a, q, drop) ==
    BigRoundUp(q, BigSub(a, BigShl(q, drop)), BigShl(BigOfInt(1), drop - 1))

\* a \div 2^drop rounded to nearest, ties to even
BigRoundShr(a, drop) ==
    IF drop <= 0 THEN a ELSE BigRoundQuotient(a, BigShr(a, drop), drop)

\* a with its last drop bits rounded away
BigRoundTo(a, drop) == IF drop <= 0 THEN a ELSE BigShl(BigRoundShr(a, drop), drop)

\* a rounded to FMantissa significant bits
BigRound(a) == BigRoundTo(a, BigBits(a) - FMantissa)

\* a float from its sign and magnitude; zero has one form
Float(neg, mag) == [neg |-> neg /\ mag # BigZero, mag |-> mag]

\* the float n / 2^k for a natural n below 2^31
FDyadic(n, k) == Float(FALSE, BigShl(BigOfInt(n), FUnitBits - k))

FInt(n) == FDyadic(n, 0)

FZero == FInt(0)

FNeg(x) == Float(~x.neg, x.mag)

FAdd(x, y) ==
    LET same == x.neg = y.neg
        less == BigLess(x.mag, y.mag)
    IN  Float(IF same \/ ~less THEN x.neg ELSE y.neg,
              BigRound(IF same THEN BigAdd(x.mag, y.mag)
                       ELSE IF less THEN BigSub(y.mag, x.mag)
                       ELSE BigSub(x.mag, y.mag)))

FSub(x, y) == FAdd(x, FNeg(y))

\* x * y: the product counts units of 2^-120 and is brought back to units of
\* 2^-60 by the rounding
FMulRound(neg, product, drop) ==
    Float(neg, BigShl(BigRoundShr(product, drop), drop - FUnitBits))

FMulDrop(bits) == IF bits > FUnitBits THEN bits ELSE FUnitBits

FMulProduct(neg, product) ==
    FMulRound(neg, product, FMulDrop(BigBits(product) - FMantissa))

FMul(x, y) == FMulProduct(x.neg # y.neg, BigMul(x.mag, y.mag))

FLess(x, y) ==
    IF x.neg # y.neg THEN x.neg
    ELSE IF x.neg THEN BigLess(y.mag, x.mag) ELSE BigLess(x.mag, y.mag)

FLeq(x, y) == ~FLess(y, x)

FMin(x, y) == IF FLess(y, x) THEN y ELSE x

FMax(x, y) == IF FLess(x, y) THEN y ELSE x

(***************************************************************************)
(* The engine on floats.  The operators below are those of actions.py,     *)
(* game_state.py and game_logic.py once more, with the chips (stacks,      *)
(* bets, pot, last_raise_amount) held as Python floats and every           *)
(* arithmetic step rounded as Python rounds it; their names carry the      *)
(* prefix fl_.  What does not compute with chips (is_terminal,             *)
(* is_chance_node, _is_round_complete, the seat search, the dealing loop,  *)
(* the hand comparison) is shared with the engine above.                   *)
(***************************************************************************)
FL_STARTING_STACK_BB == FInt(20)
FL_SMALL_BLIND_BB == FDyadic(1, 1)
FL_BIG_BLIND_BB == FInt(1)

\* PREFLOP_RAISE_BB, entry i + 1 for index i
FL_PREFLOP_RAISE_BB ==
    <<FInt(2), FDyadic(5, 1), FInt(3), FInt(4), FInt(5), FInt(8), FInt(12)>>

\* the doubles that the literals 0.33 and 0.66 denote: 0x1.51eb851eb851fp-2
\* and 0x1.51eb851eb851fp-1
FL_033 == Float(FALSE, <<18368, 30146, 14417, 10813, 0, 0, 0, 0, 0, 0>>)
FL_066 == Float(FALSE, <<3968, 27525, 28835, 21626, 0, 0, 0, 0, 0, 0>>)

\* POSTFLOP_POT_MULT, entry i + 1 for index i
FL_POSTFLOP_POT_MULT ==
    <<FDyadic(1, 2), FL_033, FDyadic(1, 1), FL_066, FDyadic(3, 2), FInt(1), FDyadic(3, 1)>>

fl_max_bet(s) == FMax(FMax(s.bets[0], s.bets[1]), s.bets[2])

fl_to_call(s) == FSub(fl_max_bet(s), s.bets[PyIdx(s.current_player)])

fl_pot_for_acting(s) == FAdd(s.pot, fl_to_call(s))

fl_min_raise_total(s) == FAdd(fl_max_bet(s), s.last_raise_amount)

\* the seven values of f, which is defined on 0..6, as a tuple
Sizes(f) == <<f[0], f[1], f[2], f[3], f[4], f[5], f[6]>>

\* the sizes left of those kept, whose totals are total_bet: a size whose
\* total an earlier kept size has already is dropped
fl_Unseen(kept, total_bet) ==
    {i \in 0..6 : kept[i + 1] /\ ~\E j \in 0..(i - 1) :
                                   kept[j + 1] /\ total_bet[j + 1] = total_bet[i + 1]}

\* the preflop loop: a size below the minimum raise is skipped, and the
\* first size above the stack ends the loop
fl_PreflopKept(stack, considered) ==
    Sizes([i \in 0..6 |-> /\ considered[i + 1]
                          /\ ~\E j \in 0..i : considered[j + 1]
                                              /\ FLess(stack, FL_PREFLOP_RAISE_BB[j + 1])])

fl_PreflopConsidered(mrt) == Sizes([i \in 0..6 |-> FLeq(mrt, FL_PREFLOP_RAISE_BB[i + 1])])

fl_PreflopRaises(s) ==
    fl_Unseen(fl_PreflopKept(s.stacks[PyIdx(s.current_player)],
                             fl_PreflopConsidered(fl_min_raise_total(s))),
              FL_PREFLOP_RAISE_BB)

\* total_bet of the postflop size i: to_call + pot * mult
fl_PostflopSize(tc, pfa, i) == FAdd(tc, FMul(pfa, FL_POSTFLOP_POT_MULT[i + 1]))

fl_PostflopTotal(s, i) == fl_PostflopSize(fl_to_call(s), fl_pot_for_acting(s), i)

fl_PostflopTotals(tc, pfa) == Sizes([i \in 0..6 |-> fl_PostflopSize(tc, pfa, i)])

\* the postflop loop: a size below the minimum raise or above the stack is
\* skipped
fl_PostflopKept(stack, facing, mrt, total_bet) ==
    Sizes([i \in 0..6 |-> /\ ~(facing /\ FLess(total_bet[i + 1], mrt))
                          /\ ~FLess(stack, total_bet[i + 1])])

fl_PostflopOf(stack, facing, mrt, total_bet) ==
    fl_Unseen(fl_PostflopKept(stack, facing, mrt, total_bet), total_bet)

fl_PostflopRaises(s) ==
    fl_PostflopOf(s.stacks[PyIdx(s.current_player)], FLess(FZero, fl_max_bet(s)),
                  fl_min_raise_total(s), fl_PostflopTotals(fl_to_call(s), fl_pot_for_acting(s)))

\* fold and call
fl_Base(tc, stack) ==
    IF FLess(FZero, tc)
    THEN {0} \cup (IF FLeq(tc, stack) THEN {1} ELSE {})
    ELSE {1}

\* the legal indices of the player to act, given to_call, the minimum raise
\* total and the raise sizes kept
fl_LegalOf(s, tc, stack, mrt, raises) ==
    IF FLeq(FSub(stack, tc), FZero)
    THEN fl_Base(tc, stack) \cup (IF FLess(FZero, stack) THEN {9} ELSE {})
    ELSE fl_Base(tc, stack)
            \cup {2 + i : i \in raises}
            \cup (IF /\ FLess(FZero, stack)
                     /\ FLeq(mrt, stack) \/ FLess(FZero, tc)
                     /\ s.round_idx = 0 => stack \notin {FL_PREFLOP_RAISE_BB[i + 1] : i \in raises}
                  THEN {9} ELSE {})

\* min_raise_total as the all-in test reads it: zero when nobody has bet
\* after the flop
fl_AllInFloor(s) ==
    IF s.round_idx = 0 \/ FLess(FZero, fl_max_bet(s)) THEN fl_min_raise_total(s) ELSE FZero

fl_Raises(s) == IF s.round_idx = 0 THEN fl_PreflopRaises(s) ELSE fl_PostflopRaises(s)

fl_LegalSet(s) ==
    IF ~s.active[PyIdx(s.current_player)] \/ s.all_in[PyIdx(s.current_player)] THEN {}
    ELSE fl_LegalOf(s, fl_to_call(s), s.stacks[PyIdx(s.current_player)], fl_AllInFloor(s),
                    fl_Raises(s))

fl_LegalSeq(legal) == SelectSeq([i \in 1..NUM_ACTIONS |-> i - 1], LAMBDA a : a \in legal)

fl_get_legal_action_indices(s) == fl_LegalSeq(fl_LegalSet(s))

fl_get_legal_actions(s) ==
    IF s.done \/ s.chance_pending THEN <<>> ELSE fl_get_legal_action_indices(s)

\* the total a raise of the given size brings the bet to
fl_RaiseTotal(s, action_index, stack) ==
    IF s.round_idx = 0 THEN FL_PREFLOP_RAISE_BB[action_index - 1]
    ELSE FMin(fl_PostflopTotal(s, action_index - 2), stack)

\* the chips put in by a call or an all-in
fl_CallChips(s, action_index, stack) ==
    IF action_index = 9 THEN stack ELSE FMin(fl_to_call(s), stack)

\* action_index_to_chips: <<is_fold, total_bet_this_street>>
fl_action_index_to_chips(s, action_index) ==
    LET p == PyIdx(s.current_player)
    IN  IF action_index = 0 THEN <<TRUE, s.bets[p]>>
        ELSE IF action_index \in {1, 9}
        THEN <<FALSE, IF action_index = 1 /\ ~FLess(FZero, fl_to_call(s)) THEN s.bets[p]
                      ELSE FAdd(s.bets[p], fl_CallChips(s, action_index, s.stacks[p]))>>
        ELSE <<FALSE, fl_RaiseTotal(s, action_index, s.stacks[p])>>

fl_deal_new_hand(deck) ==
    [deal_new_hand(deck) EXCEPT
        !.stacks = [p \in Players |-> CASE p = 1 -> FSub(FL_STARTING_STACK_BB, FL_SMALL_BLIND_BB)
                                        [] p = 2 -> FSub(FL_STARTING_STACK_BB, FL_BIG_BLIND_BB)
                                        [] OTHER -> FL_STARTING_STACK_BB],
        !.bets = [p \in Players |-> CASE p = 1 -> FL_SMALL_BLIND_BB
                                      [] p = 2 -> FL_BIG_BLIND_BB
                                      [] OTHER -> FZero],
        !.pot = FAdd(FL_SMALL_BLIND_BB, FL_BIG_BLIND_BB),
        !.last_raise_amount = FL_BIG_BLIND_BB]

\* one turn of the loop of _resolve_side_pots: the stacks after the slice
\* of slice_size that the players in eligible_win can win is paid
fl_pay_slice(s, stacks, slice_size, eligible_win) ==
    IF FLeq(slice_size, FZero) \/ eligible_win = {} THEN stacks
    ELSE [stacks EXCEPT
            ![SliceWinner([p \in Players |-> IF s.active[p] THEN showdown_hand(s, p) ELSE <<>>],
                          eligible_win)] = FAdd(@, slice_size)]

fl_pay_level(s, contributions, stacks, level, prev) ==
    fl_pay_slice(s, stacks,
                 FMul(FSub(level, prev),
                      FInt(Cardinality({p \in Players : FLeq(level, contributions[p])}))),
                 {p \in Players : FLeq(level, contributions[p]) /\ s.active[p]})

fl_lowest(levels) == CHOOSE l \in levels : \A k \in levels : FLeq(l, k)

\* the loop of _resolve_side_pots over the levels still to pay, lowest first:
\* stacks are the stacks so far, prev the level paid last
RECURSIVE fl_pay_levels(_, _, _, _, _)
fl_pay_levels(s, contributions, stacks, levels, prev) ==
    IF levels = {} THEN stacks
    ELSE fl_pay_levels(s, contributions,
                       fl_pay_level(s, contributions, stacks, fl_lowest(levels), prev),
                       levels \ {fl_lowest(levels)}, fl_lowest(levels))

fl_resolve_side_pots(s, contributions) ==
    LET levels == {contributions[p] : p \in {q \in Players : FLess(FZero, contributions[q])}}
    IN  fl_pay_levels(s, contributions, s.stacks, levels, FZero)

fl_resolve_hand(s) ==
    LET active == {p \in Players : s.active[p]}
        contributions == [p \in Players |-> FSub(FL_STARTING_STACK_BB, s.stacks[p])]
    IN  IF Cardinality(active) = 1
        THEN LET w == CHOOSE p \in active : TRUE
             IN  [s EXCEPT !.done = TRUE, !.stacks[w] = FAdd(@, s.pot)]
        ELSE [s EXCEPT !.done = TRUE, !.stacks = fl_resolve_side_pots(s, contributions)]

fl_run_out_board_and_resolve(s) == fl_resolve_hand(run_out_board(s))

fl_advance_to_next_player(s) ==
    IF Cardinality(CanAct(s)) <= 1 THEN fl_run_out_board_and_resolve(s)
    ELSE IF is_round_complete(s)
    THEN IF s.round_idx >= 3 THEN fl_resolve_hand(s)
         ELSE [s EXCEPT !.chance_pending = TRUE, !.current_player = -1]
    ELSE [s EXCEPT !.current_player = NextSeat(s, (s.current_player + 1) % NUM_PLAYERS)]

\* the state after the player to act has put add more chips in, for a total
\* bet of total_bet on this street
fl_put_in(s1, p, total_bet, add, raised) ==
    [s1 EXCEPT
        !.stacks[PyIdx(p)] = FSub(@, add),
        !.bets[PyIdx(p)] = total_bet,
        !.pot = FAdd(@, add),
        !.last_raiser = IF raised THEN p ELSE @,
        !.last_raise_amount = IF raised THEN add ELSE @]

\* all_in is set when the stack is at or below zero
fl_mark_all_in(s2, i) == [s2 EXCEPT !.all_in[i] = IF FLeq(s2.stacks[i], FZero) THEN TRUE ELSE @]

fl_bet(s, s1, total_bet, add) ==
    fl_mark_all_in(
        fl_put_in(s1, s.current_player, total_bet, add,
                  /\ FLess(FZero, add)
                  /\ \A q \in Players \ {s.current_player} : FLess(s.bets[q], total_bet)),
        PyIdx(s.current_player))

fl_apply_chips_of(s, s1, is_fold, total_bet) ==
    IF is_fold THEN [s1 EXCEPT !.active[PyIdx(s.current_player)] = FALSE]
    ELSE fl_bet(s, s1, total_bet, FSub(total_bet, s.bets[PyIdx(s.current_player)]))

fl_apply_chips_pair(s, s1, chips) == fl_apply_chips_of(s, s1, chips[1], chips[2])

\* apply_action up to the single-winner test
fl_apply_chips(s, action_index) ==
    fl_apply_chips_pair(s,
                        [s EXCEPT !.undo_stack = Append(@, ActionRecord(s)),
                                  !.action_history = Append(@, action_index)],
                        fl_action_index_to_chips(s, action_index))

\* apply_action from the single-winner test on
fl_after_chips(s2) ==
    IF Cardinality({q \in Players : s2.active[q]}) = 1 THEN fl_resolve_hand(s2)
    ELSE fl_advance_to_next_player(s2)

fl_apply_action(s, action_index) == fl_after_chips(fl_apply_chips(s, action_index))

fl_sample_chance(s) ==
    IF ~s.chance_pending \/ s.done THEN s
    ELSE LET n == IF s.round_idx = 0 THEN 3 ELSE 1
             s1 == [s EXCEPT
                      !.board = @ \o [i \in 1..n |-> Deck(s)[s.deck_idx + i]],
                      !.deck_idx = @ + n,
                      !.action_history = Append(@, DEAL),
                      !.round_idx = @ + 1,
                      !.chance_pending = FALSE,
                      !.undo_stack = Append(@, DealRecord(s, n)),
                      !.bets = [p \in Players |-> FZero],
                      !.last_raiser = -1,
                      !.last_raise_amount = FZero]
             first == {o \in 1..NUM_PLAYERS : (o % NUM_PLAYERS) \in CanAct(s1)}
         IN  IF first # {}
             THEN [s1 EXCEPT !.current_player =
                                (CHOOSE o \in first : \A o2 \in first : o <= o2) % NUM_PLAYERS]
             ELSE fl_run_out_board_and_resolve(s1)

\* the caller of the float engine makes at most MaxFloatRaises bets or raises
\* in a hand
MaxFloatRaises == 6

\* the legal actions the caller tries: fold and call before the flop; fold,
\* call, the sizes 0.33 and 0.66 of the pot and all-in on the flop; check and
\* call after it
ExploredFloat(s) ==
    LET legal == Range(fl_get_legal_actions(s))
        tried == CASE s.round_idx = 0 -> {0, 1}
                   [] s.round_idx = 1 -> {0, 1, 3, 5, 9}
                   [] OTHER -> {1}
    IN  {a \in legal \cap tried : a >= 2 => Raises(s) < MaxFloatRaises}

InitFloat == Idle /\ state = fl_deal_new_hand(1)

ApplyFloat ==
    /\ \E a \in ExploredFloat(state) : state' = fl_apply_action(state, a)
    /\ UNCHANGED frame

ChanceFloat == is_chance_node(state) /\ state' = fl_sample_chance(state) /\ UNCHANGED frame

PlayFloat == ApplyFloat \/ ChanceFloat

\* legal play of the engine with its chips as floats
SpecFloat == InitFloat /\ [][PlayFloat]_vars

\* C30: in every state reached by legal play stacks[p] >= 0 for every
\* player, and while the hand is not resolved all_in[p] is true exactly when
\* p is active with stacks[p] = 0
C30_AllInIffNoChips ==
    /\ \A p \in Players : FLeq(FZero, state.stacks[p])
    /\ ~state.done =>
          \A p \in Players : state.all_in[p] <=> (state.active[p] /\ state.stacks[p] = FZero)

\* C39: at every decision node of legal play from a fresh deal the acting
\* player's stack covers to_call = max(bets) - bets[p], and Call is legal
\* whenever to_call > 0: the legal set is never Fold with All-In for less
C39_StackCoversCall ==
    (~is_terminal(state) /\ ~is_chance_node(state)) =>
        /\ FLeq(fl_to_call(state), state.stacks[state.current_player])
        /\ FLess(FZero, fl_to_call(state)) => 1 \in fl_LegalSet(state)

(***************************************************************************)
(* Checkpoints.  CFRTrainer.save pickles regret_sum, strategy_sum,         *)
(* action_map and iteration; CFRTrainer.load puts the four into the        *)
(* trainer it is called on.  train(num_iterations) is called with its      *)
(* default checkpoint_interval 0, so it saves nothing itself.              *)
(***************************************************************************)

\* what save writes
Checkpoint(tr) ==
    Loaded([ regret_sum |-> tr.regret_sum, strategy_sum |-> tr.strategy_sum,
             action_map |-> tr.action_map, iteration |-> tr.iteration ])

\* a load that restores the three tables and leaves the iteration counter
load_tables(tr, data) ==
    [tr EXCEPT !.regret_sum = data.regret_sum, !.strategy_sum = data.strategy_sum,
               !.action_map = data.action_map]

\* load: the four saved fields replace the trainer's
load(tr, data) ==
    [tr EXCEPT !.regret_sum = data.regret_sum, !.strategy_sum = data.strategy_sum,
               !.action_map = data.action_map, !.iteration = data.iteration]

\* the trainer that trains first: Linear CFR, pruning as in InitTrain
FirstTrainer ==
    [NewTrainer EXCEPT !.prune_threshold = Loaded(PruneAlways), !.prune_warm_up = 0]

\* another trainer, constructed without Linear CFR
OtherTrainer == [FirstTrainer EXCEPT !.use_linear_cfr = FALSE]

\* train() is called with num_iterations in 1..MaxIterations
MaxIterations == 2

\* a trainer as constructed, no call of train, no checkpoint; state holds a
\* hand of the shuffle the first deal will draw
InitResume ==
    /\ bucketing = NoTables /\ lookup = <<>> /\ disk = None /\ training = None
    /\ probe = None /\ builder = None
    /\ calls = <<>> /\ trainer = FirstTrainer
    /\ state = deal_new_hand(1)

\* train(num_iterations) is called and enters its first iteration: traverser
\* 0 on a fresh hand.  The shuffles follow the schedule of TrainNext.  Once
\* the checkpoint is written it is the other trainer, after its load, that
\* trains.
TrainStart ==
    /\ training = None /\ calls = <<>>
    /\ disk # None => trainer = load(OtherTrainer, disk[1])
    /\ trainer.iteration * NUM_PLAYERS < MaxTraversals
    /\ \E num_iterations \in 1..MaxIterations :
          training' = TrainCall(trainer.iteration, num_iterations)
    /\ trainer' = [trainer EXCEPT !.iteration = @ + 1]
    /\ state' = deal_new_hand(IF (trainer.iteration * NUM_PLAYERS) % 2 = 1
                              THEN (state.deck % Cardinality(Decks)) + 1
                              ELSE state.deck)
    /\ calls' = <<Activation(state', 0)>>
    /\ UNCHANGED <<bucketing, lookup, disk, probe, builder>>

\* train(): the last traversal of iteration end is over, the loop ends
TrainEnd ==
    /\ training # None /\ Len(calls) = 1 /\ Top.pc = "return"
    /\ Top.traverser = NUM_PLAYERS - 1 /\ trainer.iteration >= training[1].end
    /\ calls' = <<>> /\ training' = None
    /\ UNCHANGED <<state, trainer, bucketing, lookup, disk, probe, builder>>

\* save, called once on the first trainer
Save ==
    /\ training = None /\ calls = <<>> /\ disk = None
    /\ disk' = Checkpoint(trainer)
    /\ UNCHANGED <<state, calls, trainer, bucketing, lookup, training, probe, builder>>

\* load on another trainer, which takes the place of the first
Load ==
    /\ training = None /\ calls = <<>> /\ disk # None
    /\ trainer' = load(OtherTrainer, disk[1])
    /\ UNCHANGED <<state, calls, bucketing, lookup, training, disk, probe, builder>>

Resume == Traverse \/ TrainStart \/ TrainEnd \/ Save \/ Load

\* calls of train, save and load on trainers as constructed
SpecResume == InitResume /\ [][Resume]_vars

\* the four saved fields of tr are those of data
Restored(tr, data) ==
    /\ tr.regret_sum = data.regret_sum /\ tr.strategy_sum = data.strategy_sum
    /\ tr.action_map = data.action_map /\ tr.iteration = data.iteration

CallOf(fn, args) == [fn |-> fn, args |-> args, result |-> None]

\* a hole-card pair: two distinct cards of the 52, in either order
HolePairs == {<<c0, c1>> : c0, c1 \in 0..51} \ {<<c, c>> : c \in 0..51}

\* the class of a hole-card pair: its high rank, its low rank and whether the
\* two cards share a suit (pocket pairs never do)
HandClass(hole_cards) ==
    LET r0 == card_rank(hole_cards[1])
        r1 == card_rank(hole_cards[2])
    IN  << IF r0 >= r1 THEN r0 ELSE r1, IF r0 >= r1 THEN r1 ELSE r0,
           card_suit(hole_cards[1]) = card_suit(hole_cards[2]) >>

\* the indices _hole_to_canonical gives to the hole-card pairs, by class
CanonicalIds == {<<HandClass(h), hole_to_canonical(h)>> : h \in HolePairs}

\* the cards the caller of evaluate_hand draws from: the wheel of suit 0 with
\* the deuce and the three of suit 1, and the 2, 3, 4, 6, A of suit 0 with the
\* deuces of suits 1 and 2
HandCards == { {0, 1, 2, 3, 12, 13, 14}, {0, 1, 2, 4, 12, 13, 26} }

\* the lists of n distinct cards drawn from a set, in every order
CardLists(from, n) ==
    {cards \in [1..n -> from] : \A i, j \in 1..n : i # j => cards[i] # cards[j]}

\* a caller holds two distinct cards and is about to ask for their index, or
\* holds 5 to 7 distinct cards and is about to evaluate them
InitCall ==
    /\ calls = <<>> /\ trainer = NewTrainer /\ bucketing = NoTables /\ lookup = <<>>
    /\ training = None /\ disk = None /\ builder = None /\ state = None
    /\ \/ \E hole_cards \in HolePairs : probe = CallOf("_hole_to_canonical", hole_cards)
       \/ \E from \in HandCards, n \in 5..7 :
             \E cards \in CardLists(from, n) : probe = CallOf("evaluate_hand", cards)

\* canonical = _hole_to_canonical(hole_cards)
HoleToCanonical ==
    /\ probe.fn = "_hole_to_canonical" /\ probe.result = None
    /\ probe' = [probe EXCEPT !.result = Loaded(hole_to_canonical(probe.args))]
    /\ UNCHANGED <<state, calls, trainer, bucketing, lookup, training, disk, builder>>

\* h = evaluate_hand(cards)
EvaluateHand ==
    /\ probe.fn = "evaluate_hand" /\ probe.result = None
    /\ probe' = [probe EXCEPT !.result = Loaded(evaluate_hand(probe.args))]
    /\ UNCHANGED <<state, calls, trainer, bucketing, lookup, training, disk, builder>>

Call == HoleToCanonical \/ EvaluateHand

SpecCall == InitCall /\ [][Call]_vars

\* C31: _hole_to_canonical maps every pair of distinct cards into 0..168; a
\* pocket pair gets its rank; two pairs of cards get the same index exactly
\* when they have the same high rank, low rank and suitedness; and the 169
\* classes fill 0..168, one index each
C31_CanonicalIndex ==
    (probe.fn = "_hole_to_canonical" /\ probe.result # None) =>
        /\ probe.result[1] \in 0..168
        /\ HandClass(probe.args)[1] = HandClass(probe.args)[2] =>
              probe.result[1] = HandClass(probe.args)[1]
        /\ \A other \in CanonicalIds :
              (other[2] = probe.result[1]) <=> (other[1] = HandClass(probe.args))
        /\ {ci[2] : ci \in CanonicalIds} = 0..168
        /\ Cardinality(CanonicalIds) = 169

\* the index of ace-king offsuit, the last of the 169, has been computed
C31_Witness ==
    /\ probe.fn = "_hole_to_canonical" /\ probe.args = <<12, 24>>
    /\ probe.result = Loaded(168)

\* the greatest _score_5, as tuples compare, over the 5-card subsets of a set
\* of cards, each subset read in ascending order
BestScore(cardset) ==
    LET scores == {score_5(SetToDesc(five)) : five \in {T \in SUBSET cardset : Cardinality(T) = 5}}
    IN  CHOOSE s \in scores : \A t \in scores : t = s \/ TupleGreater(s, t)

\* BestScore of the sets of 5 to 7 cards the caller can hold
BestScores ==
    [cardset \in UNION {{T \in SUBSET from : Cardinality(T) >= 5} : from \in HandCards}
        |-> BestScore(cardset)]

\* C32: evaluate_hand on a list of 5 to 7 distinct cards returns the greatest
\* _score_5 over the 5-card subsets of the cards, whatever the order in which
\* the list gives them
C32_EvaluateHandOrderFree ==
    (probe.fn = "evaluate_hand" /\ probe.result # None) =>
        probe.result[1] = BestScores[{probe.args[i] : i \in 1..Len(probe.args)}]

\* seven cards given in descending order, best hand the wheel straight flush
C32_Witness ==
    /\ probe.fn = "evaluate_hand" /\ probe.args = <<14, 13, 12, 3, 2, 1, 0>>
    /\ probe.result = Loaded(<<8, 3>>)

(***************************************************************************)
(* bucketing_build/preflop_table.py: the generator enumerate_canonical_    *)
(* hands, resumed by the loop of build_preflop_table                       *)
(***************************************************************************)
\* canonical_from_hole
canonical_from_hole(hole_cards) ==
    LET r0 == hole_cards[1] % 13
        r1 == hole_cards[2] % 13
        s0 == hole_cards[1] \div 13
        s1 == hole_cards[2] \div 13
        high == IF r0 >= r1 THEN r0 ELSE r1
        low == IF r0 >= r1 THEN r1 ELSE r0
        suited == IF s0 = s1 THEN 1 ELSE 0
        base == 13 + (high - 1) * high
    IN  IF high = low THEN high
        ELSE base + 2 * low + (IF suited # 0 THEN 0 ELSE 1)

\* the generator's frame: the yield it is suspended at ("start" before the
\* first next(), "end" once exhausted), its locals, and the triple it gave
Generator(at, r, high, low, idx, yielded) ==
    [at |-> at, r |-> r, high |-> high, low |-> low, idx |-> idx, yielded |-> yielded]

InitBuild ==
    /\ calls = <<>> /\ trainer = NewTrainer /\ bucketing = NoTables /\ lookup = <<>>
    /\ training = None /\ disk = None /\ probe = None /\ state = None
    /\ builder = Generator("start", 0, 0, 0, 0, None)

\* the r the loop 'for r in range(13)' takes next
NextPair == IF builder.at = "start" THEN 0 ELSE builder.r + 1

\* for r in range(13): c0, c1 = r * 13, r * 13 + 1; yield r, c0, c1
YieldPair ==
    /\ builder.at \in {"start", "pair"} /\ NextPair < 13
    /\ builder' = [builder EXCEPT !.at = "pair", !.r = NextPair,
                       !.yielded = Loaded(<<NextPair, NextPair * 13, NextPair * 13 + 1>>)]
    /\ UNCHANGED <<state, calls, trainer, bucketing, lookup, training, disk, probe>>

\* the (high, low) the loops 'for high in range(1, 13): for low in
\* range(high)' take next: <<13, 0>> when they are over
NextHighLow ==
    IF builder.at = "pair" THEN <<1, 0>>
    ELSE IF builder.low + 1 < builder.high THEN <<builder.high, builder.low + 1>>
    ELSE <<builder.high + 1, 0>>

\* idx = 13 after the pairs; idx += 1 after a yield of the inner loop
NextIdx == IF builder.at = "pair" THEN 13 ELSE builder.idx + 1

\* c0, c1 = high * 13, low * 13; yield idx, c0, c1
YieldSuited ==
    /\ \/ builder.at = "pair" /\ NextPair = 13
       \/ builder.at = "offsuit"
    /\ NextHighLow[1] < 13
    /\ builder' = [builder EXCEPT !.at = "suited", !.idx = NextIdx,
                       !.high = NextHighLow[1], !.low = NextHighLow[2],
                       !.yielded = Loaded(<<NextIdx, NextHighLow[1] * 13, NextHighLow[2] * 13>>)]
    /\ UNCHANGED <<state, calls, trainer, bucketing, lookup, training, disk, probe>>

\* idx += 1; c0, c1 = high * 13, low * 13 + 1; yield idx, c0, c1
YieldOffsuit ==
    /\ builder.at = "suited"
    /\ builder' = [builder EXCEPT !.at = "offsuit", !.idx = builder.idx + 1,
                       !.yielded = Loaded(<<builder.idx + 1, builder.high * 13,
                                            builder.low * 13 + 1>>)]
    /\ UNCHANGED <<state, calls, trainer, bucketing, lookup, training, disk, probe>>

\* idx += 1 and the loops are over: the generator returns
Exhausted ==
    /\ builder.at = "offsuit" /\ NextHighLow[1] = 13
    /\ builder' = [builder EXCEPT !.at = "end", !.idx = builder.idx + 1, !.yielded = None]
    /\ UNCHANGED <<state, calls, trainer, bucketing, lookup, training, disk, probe>>

Enumerate == YieldPair \/ YieldSuited \/ YieldOffsuit \/ Exhausted

SpecBuild == InitBuild /\ [][Enumerate]_vars

\* C36: every triple (canonical_id, card0, card1) the generator yields has
\* two distinct cards of the 52-card deck, and both canonical_from_hole and
\* _hole_to_canonical give canonical_id for them
C36_EnumerateMatchesLookup ==
    (builder # None /\ builder.yielded # None) =>
        LET cid == builder.yielded[1][1]
            c0 == builder.yielded[1][2]
            c1 == builder.yielded[1][3]
        IN  /\ c0 # c1 /\ c0 \in 0..51 /\ c1 \in 0..51
            /\ canonical_from_hole(<<c0, c1>>) = cid
            /\ hole_to_canonical(<<c0, c1>>) = cid

====
